---- MODULE Spec2Model ----
(***************************************************************************)
(* Model of the Stripe checkout example: the Express router                *)
(* (routes/index.js), the gateway adapter with its Braintree               *)
(* compatibility shim (lib/stripe-gateway.js) and the application wiring   *)
(* (app.js).                                                               *)
(*                                                                         *)
(* JavaScript values that can be strings, undefined, functions or objects  *)
(* are tagged records [t, v]; v is the text String(value) produces.        *)
(* Response texts, redirect locations and log lines are plain strings.     *)
(*                                                                         *)
(* The specifications share the variables:                                 *)
(*   SpecFn       applies the two pure helpers to bounded string inputs;   *)
(*   SpecGateway  calls the gateway's methods directly, with the           *)
(*                processor's SDK settling each call either way;           *)
(*   SpecWebhook  is POST /stripe/webhooks under a changing environment;   *)
(*   SpecDeliveries is the same route receiving several deliveries;        *)
(*   SpecProcess  is the process from the load of the gateway module on;   *)
(*   SpecBrowser  is the checkout page's script, the server answering it;  *)
(*   SpecLive     is every route with each processor call settling;        *)
(*   SpecFollow   is the return from the processor's page, followed;       *)
(*   SpecSession  is the session store under overlapping requests;         *)
(*   Spec         is the checkout routes, the session flash store and the  *)
(*                processor holding the payment intent.                    *)
(*                                                                         *)
(* A handler runs without interruption up to its await and again from the  *)
(* settling of the awaited processor call to its response, so each async   *)
(* route is a Start and a Resume action; the webhook route has no await.   *)
(* resp describes the step just taken: the response it sent, with the      *)
(* request, the processor calls (and how they settled), the debug lines    *)
(* and the flash messages of that request; steps that send nothing reset   *)
(* it to NoResp.                                                           *)
(***************************************************************************)
EXTENDS Integers, Sequences, FiniteSets, TLC

VARIABLES
    fnArg,      \* SpecFn: the status string handed to the pure helpers
    fnMapped,   \* SpecFn: mapStripeStatusToBraintree(fnArg), once called
    fnResult,   \* SpecFn: createResultObject({status: fnArg}), once called
    fnResultMapped, \* SpecFn: createResultObject({status: fnMapped})
    env,        \* process.env: the webhook secret and the two API keys
    intents,    \* processor side: status of each payment intent
    flash,      \* session store: per session, the queued 'error' flashes
    pending,    \* requests suspended at their await of a processor call
    gw,         \* SpecGateway: the last direct call of a gateway method
    proc,       \* the server process: loading, failed or serving
    deliveries, \* SpecDeliveries: the webhook deliveries answered so far
    browser,    \* SpecBrowser: the checkout page running stripe-demo.js
    accepted,   \* history: the intents POST /checkouts has redirected to
    resp        \* the response sent by the step just taken (NoResp if none)

vars == <<fnArg, fnMapped, fnResult, fnResultMapped,
          env, intents, flash, pending, gw, proc, deliveries, browser, accepted, resp>>

fnVars == <<fnArg, fnMapped, fnResult, fnResultMapped>>

auxVars == <<proc, deliveries, browser, accepted>>

(***************************************************************************)
(* JavaScript values                                                       *)
(***************************************************************************)
Str(s) == [t |-> "string", v |-> s]

Undefined == [t |-> "undefined", v |-> "undefined"]

Fn(src) == [t |-> "function", v |-> src]

Obj(src) == [t |-> "object", v |-> src]

\* Not a JavaScript value: marks a helper of SpecFn that was not called yet.
NotCalled == [t |-> "not called", v |-> ""]

\* String(x), as a template literal applies it.
String(x) == x.v

\* ToBoolean(x), as `!x`, `a || b` and `a && b` apply it.
Truthy(x) ==
    CASE x.t = "string" -> x.v # ""
      [] x.t = "undefined" -> FALSE
      [] OTHER -> TRUE

(***************************************************************************)
(* lib/stripe-gateway.js: the status mapping                               *)
(***************************************************************************)
\* The own properties of the statusMap object literal.
statusMap ==
    [requires_payment_method |-> "Authorizing",
     requires_confirmation |-> "Authorizing",
     requires_action |-> "Authorizing",
     processing |-> "SubmittedForSettlement",
     requires_capture |-> "Authorized",
     canceled |-> "Voided",
     succeeded |-> "Settled"]

\* statusMap is an object literal, so a property read that misses its own
\* properties continues in Object.prototype.
ObjectPrototype ==
    [constructor |-> Fn("function Object() { [native code] }"),
     toString |-> Fn("function toString() { [native code] }"),
     valueOf |-> Fn("function valueOf() { [native code] }"),
     hasOwnProperty |-> Fn("function hasOwnProperty() { [native code] }"),
     __proto__ |-> Obj("[object Object]")]

\* statusMap[key]
statusMapGet(key) ==
    IF key \in DOMAIN statusMap THEN Str(statusMap[key])
    ELSE IF key \in DOMAIN ObjectPrototype THEN ObjectPrototype[key]
    ELSE Undefined

\* return statusMap[stripeStatus] || stripeStatus
mapStripeStatusToBraintree(stripeStatus) ==
    IF Truthy(statusMapGet(String(stripeStatus)))
    THEN statusMapGet(String(stripeStatus))
    ELSE stripeStatus

(***************************************************************************)
(* routes/index.js: the success classifier                                 *)
(***************************************************************************)
\* The success list normalised to the legacy vocabulary.
TRANSACTION_SUCCESS_STATUSES_LegacyOnly ==
    <<"Settled", "Authorized", "SubmittedForSettlement">>

TRANSACTION_SUCCESS_STATUSES ==
    <<"succeeded", "processing", "requires_capture",
      "Settled", "Authorized", "SubmittedForSettlement">>

\* Array.prototype.indexOf: strict equality, -1 when absent (0-based).
indexOf(arr, x) ==
    IF x.t = "string" /\ \E i \in 1..Len(arr) : arr[i] = x.v
    THEN (CHOOSE i \in 1..Len(arr) :
              arr[i] = x.v /\ \A j \in 1..(i - 1) : arr[j] # x.v) - 1
    ELSE -1

NoResult == [header |-> "", icon |-> "", message |-> ""]

\* A classifier that knows only the processor's own vocabulary.
createResultObject_NativeOnly(transaction) ==
    IF indexOf(SubSeq(TRANSACTION_SUCCESS_STATUSES, 1, 3),
               transaction.status) # -1
    THEN [header |-> "Sweet Success!",
          icon |-> "success",
          message |-> "Your test transaction has been successfully processed. See the Stripe API response and try again."]
    ELSE [header |-> "Transaction Failed",
          icon |-> "fail",
          message |-> "Your test transaction has a status of "
                      \o String(transaction.status)
                      \o ". See the Stripe API response and try again."]

createResultObject(transaction) ==
    IF indexOf(TRANSACTION_SUCCESS_STATUSES, transaction.status) # -1
    THEN [header |-> "Sweet Success!",
          icon |-> "success",
          message |-> "Your test transaction has been successfully processed. See the Stripe API response and try again."]
    ELSE [header |-> "Transaction Failed",
          icon |-> "fail",
          message |-> "Your test transaction has a status of "
                      \o String(transaction.status)
                      \o ". See the Stripe API response and try again."]

(***************************************************************************)
(* Inputs of the pure helpers                                              *)
(***************************************************************************)
\* The processor's enumerated statuses.
StripeStatuses ==
    {"requires_payment_method", "requires_confirmation", "requires_action",
     "processing", "requires_capture", "canceled", "succeeded"}

\* The processor's statuses; the legacy vocabulary the mapping produces;
\* strings outside both: empty, unknown, differently cased, and names of
\* properties every object inherits.
StatusInputs ==
    StripeStatuses
        \cup {"Authorizing", "SubmittedForSettlement", "Authorized", "Voided",
              "Settled"}
        \cup {"", "unknown_status", "SUCCEEDED", "settled", "failed",
              "constructor", "toString", "valueOf", "hasOwnProperty",
              "__proto__"}

(***************************************************************************)
(* Responses                                                               *)
(***************************************************************************)
\* No response was sent by the step just taken.
NoResp ==
    [route |-> "", req |-> [none |-> TRUE], status |-> 0, location |-> "",
     text |-> "", json |-> [none |-> TRUE], view |-> "",
     locals |-> [none |-> TRUE],
     flashed |-> <<>>, log |-> <<>>, calls |-> <<>>, escaped |-> FALSE]

\* An exception left the handler: the request gets no response from it.
Escaped(route, req, log, calls) ==
    [NoResp EXCEPT !.route = route, !.req = req, !.log = log,
                   !.calls = calls, !.escaped = TRUE]

\* res.status(code).send(text)
Send(route, req, code, text, log, calls) ==
    [NoResp EXCEPT !.route = route, !.req = req, !.status = code,
                   !.text = text, !.log = log, !.calls = calls]

\* res.status(code).json(body)
Json(route, req, code, body, log, calls) ==
    [NoResp EXCEPT !.route = route, !.req = req, !.status = code,
                   !.json = body, !.log = log, !.calls = calls]

\* res.redirect(location), after the req.flash('error', ...) calls in flashed
Redirect(route, req, location, flashed, log, calls) ==
    [NoResp EXCEPT !.route = route, !.req = req, !.status = 302,
                   !.location = location, !.flashed = flashed,
                   !.log = log, !.calls = calls]

\* res.render(view, locals)
Render(route, req, view, locals, log, calls) ==
    [NoResp EXCEPT !.route = route, !.req = req, !.status = 200,
                   !.view = view, !.locals = locals,
                   !.log = log, !.calls = calls]

\* No gateway method was called directly and no route handler run against
\* the mocked SDK.
NoGw == [method |-> "", calls |-> <<>>, threw |-> FALSE, message |-> "",
         value |-> <<>>, page |-> NoResp]

(***************************************************************************)
(* POST /stripe/webhooks                                                   *)
(***************************************************************************)
\* s.includes(sub)
Includes(s, sub) ==
    \E i \in 1..(Len(s) - Len(sub) + 1) :
        SubSeq(s, i, i + Len(sub) - 1) = sub

\* The signature the processor computes over a payload with a secret.
SignatureFor(secret) == "sig_" \o secret

KnownEventTypes ==
    {"payment_intent.succeeded", "payment_intent.payment_failed",
     "payment_method.attached", "customer.created", "charge.refunded"}

EventTypes == KnownEventTypes \cup {"invoice.paid"}

\* An event as the processor's routine returns it; hasData says whether
\* event.data is an object (with its `object` member) or is missing.
Events == [type : EventTypes, hasData : BOOLEAN, id : {"obj_1"}]

NoEvent == [type |-> "", hasData |-> FALSE, id |-> ""]

\* Request bodies: JSON text of an event, or bytes that do not parse.
Payloads ==
    {[parses |-> TRUE, event |-> e] : e \in Events}
        \cup {[parses |-> FALSE, event |-> NoEvent]}

WebhookSecrets == {Undefined, Str(""), Str("whsec_test")}

\* The stripe-signature header: absent, without a timestamp field, with a
\* wrong signature, or signed with the configured test secret.
SignatureHeaders ==
    {Undefined, Str("invalid_signature"), Str("v1=sig_whsec_test"),
     Str("t=1234567890,v1=bad"), Str("t=1234567890,v1=sig_whsec_test")}

\* stripe.webhooks.constructEvent(payload, header, secret) of the processor's
\* SDK: it throws unless the header carries a timestamp field and the
\* signature of the payload under the secret, and the payload parses.
sdkConstructEvent(payload, signature, webhookSecret) ==
    IF signature.t # "string"
    THEN [threw |-> TRUE, message |-> "No stripe-signature header value was provided",
          event |-> NoEvent]
    ELSE IF ~Includes(signature.v, "t=")
    THEN [threw |-> TRUE, message |-> "Unable to extract timestamp and signatures from header",
          event |-> NoEvent]
    ELSE IF ~Includes(signature.v, "v1=" \o SignatureFor(String(webhookSecret)))
    THEN [threw |-> TRUE, message |-> "No signatures found matching the expected signature for payload",
          event |-> NoEvent]
    ELSE IF ~payload.parses
    THEN [threw |-> TRUE, message |-> "Unexpected token in JSON",
          event |-> NoEvent]
    ELSE [threw |-> FALSE, message |-> "", event |-> payload.event]

\* An adapter that swallows the SDK's error and hands on the parsed body.
constructWebhookEvent_Swallow(payload, signature, webhookSecret) ==
    [threw |-> FALSE, message |-> "", event |-> payload.event]

\* stripeGateway.constructWebhookEvent: returns the event or rethrows with
\* its own prefix.
constructWebhookEvent(payload, signature, webhookSecret) ==
    LET r == sdkConstructEvent(payload, signature, webhookSecret)
    IN  IF r.threw
        THEN [threw |-> TRUE,
              message |-> "Webhook signature verification failed: " \o r.message,
              event |-> NoEvent]
        ELSE r

\* The call the adapter makes, recorded with how the SDK settled it.
ConstructEventCall(payload, signature, webhookSecret) ==
    [op |-> "webhooks.constructEvent",
     args |-> [payload |-> payload, signature |-> signature,
               secret |-> webhookSecret],
     outcome |-> sdkConstructEvent(payload, signature, webhookSecret)]

\* The debug format of each known case of the switch.
dispatchFormat ==
    [type \in KnownEventTypes |->
        CASE type = "payment_intent.succeeded" -> "PaymentIntent succeeded: "
          [] type = "payment_intent.payment_failed" -> "PaymentIntent failed: "
          [] type = "payment_method.attached" -> "PaymentMethod attached: "
          [] type = "customer.created" -> "Customer created: "
          [] type = "charge.refunded" -> "Charge refunded: "]

\* switch (event.type): each known case reads event.data.object, which
\* raises a TypeError when event.data is missing; the default case reads
\* only event.type.
dispatchEvent(event) ==
    IF event.type \in KnownEventTypes
    THEN IF event.hasData
         THEN [threw |-> FALSE,
               line |-> dispatchFormat[event.type] \o event.id]
         ELSE [threw |-> TRUE,
               line |-> "Cannot read properties of undefined (reading 'object')"]
    ELSE [threw |-> FALSE, line |-> "Unhandled event type: " \o event.type]

\* The handler with the verification error not caught: the request is
\* dispatched as if the signature had been verified.
webhookHandler_NoVerifyCatch(req, webhookSecret) ==
    LET route == "POST /stripe/webhooks"
        call == ConstructEventCall(req.body, req.sig, webhookSecret)
        d == dispatchEvent(req.body.event)
    IN  IF ~Truthy(webhookSecret)
        THEN Send(route, req, 500, "Webhook secret not configured",
                  <<"Webhook secret not configured">>, <<>>)
        ELSE IF d.threw
        THEN Send(route, req, 500, "Webhook handler error",
                  <<"Error handling webhook event: " \o d.line>>, <<call>>)
        ELSE Json(route, req, 200, [received |-> TRUE], <<d.line>>, <<call>>)

\* The handler with the dispatch outside any try/catch.
webhookHandler_NoDispatchCatch(req, webhookSecret) ==
    LET route == "POST /stripe/webhooks"
        call == ConstructEventCall(req.body, req.sig, webhookSecret)
        r == constructWebhookEvent(req.body, req.sig, webhookSecret)
        d == dispatchEvent(r.event)
    IN  IF ~Truthy(webhookSecret)
        THEN Send(route, req, 500, "Webhook secret not configured",
                  <<"Webhook secret not configured">>, <<>>)
        ELSE IF r.threw
        THEN Send(route, req, 400, "Webhook signature verification failed",
                  <<"Webhook signature verification failed: Error: "
                      \o r.message>>,
                  <<call>>)
        ELSE IF d.threw
        THEN Escaped(route, req, <<>>, <<call>>)
        ELSE Json(route, req, 200, [received |-> TRUE], <<d.line>>, <<call>>)

\* The handler testing the secret against undefined only.
webhookHandler_SecretUndefinedOnly(req, webhookSecret) ==
    LET route == "POST /stripe/webhooks"
        call == ConstructEventCall(req.body, req.sig, webhookSecret)
        r == constructWebhookEvent(req.body, req.sig, webhookSecret)
        d == dispatchEvent(r.event)
    IN  IF webhookSecret = Undefined
        THEN Send(route, req, 500, "Webhook secret not configured",
                  <<"Webhook secret not configured">>, <<>>)
        ELSE IF r.threw
        THEN Send(route, req, 400, "Webhook signature verification failed",
                  <<"Webhook signature verification failed: Error: "
                      \o r.message>>,
                  <<call>>)
        ELSE IF d.threw
        THEN Send(route, req, 500, "Webhook handler error",
                  <<"Error handling webhook event: " \o d.line>>, <<call>>)
        ELSE Json(route, req, 200, [received |-> TRUE], <<d.line>>, <<call>>)

\* router.post('/stripe/webhooks', ...): the whole handler; it has no await.
\* Its debug lines are: the missing secret; the verification error; the
\* line of the dispatched case; the error of a failed dispatch.
webhookHandler(req, webhookSecret) ==
    LET route == "POST /stripe/webhooks"
        call == ConstructEventCall(req.body, req.sig, webhookSecret)
        r == constructWebhookEvent(req.body, req.sig, webhookSecret)
        d == dispatchEvent(r.event)
    IN  IF ~Truthy(webhookSecret)
        THEN Send(route, req, 500, "Webhook secret not configured",
                  <<"Webhook secret not configured">>, <<>>)
        ELSE IF r.threw
        THEN Send(route, req, 400, "Webhook signature verification failed",
                  <<"Webhook signature verification failed: Error: "
                      \o r.message>>,
                  <<call>>)
        ELSE IF d.threw
        THEN Send(route, req, 500, "Webhook handler error",
                  <<"Error handling webhook event: " \o d.line>>, <<call>>)
        ELSE Json(route, req, 200, [received |-> TRUE], <<d.line>>, <<call>>)

(***************************************************************************)
(* The processor (external): payment intents and the SDK calls             *)
(***************************************************************************)
\* Bounds of the model.
MaxFlash == 1       \* flash messages queued over all sessions

MaxPending == 1     \* requests suspended at an await at the same time

Sessions == {"s1", "s2"}

\* The payment intent the processor holds.
IntentIds == {"pi_1"}

\* Statuses the processor may report: its enumerated ones and one it does
\* not document (yet).
RawStatuses == StripeStatuses \cup {"unknown_status"}

\* Messages of the errors the processor's SDK rejects with.
NoSuchIntent == "No such payment_intent"

ConnectionError == "An error occurred with our connection to Stripe"

\* A value the SDK resolves with: an intent, or (defined = FALSE) no object.
Intent(id, status) ==
    [defined |-> TRUE, id |-> id, status |-> status, amount |-> 1000,
     currency |-> "usd", client_secret |-> id \o "_secret"]

NoIntent ==
    [defined |-> FALSE, id |-> "", status |-> Undefined, amount |-> 0,
     currency |-> "", client_secret |-> ""]

Resolved(value) == [rejected |-> FALSE, message |-> "", value |-> value]

Rejected(message) == [rejected |-> TRUE, message |-> message, value |-> NoIntent]

\* How stripe.paymentIntents.retrieve(id) may settle in the current state.
sdkRetrieve(id) ==
    IF id.t = "string" /\ id.v \in IntentIds
    THEN {Resolved(Intent(id.v, intents[id.v])), Resolved(NoIntent),
          Rejected(ConnectionError)}
    ELSE {Rejected(NoSuchIntent), Rejected(ConnectionError)}

\* How stripe.paymentIntents.create(params) may settle.
sdkCreate(params) ==
    {Resolved(Intent("pi_1", Str("requires_payment_method"))),
     Resolved(NoIntent), Rejected(ConnectionError),
     Rejected("Invalid integer")}

\* stripeGateway.retrievePaymentIntent, after its await: the intent, or the
\* SDK's error rethrown with the adapter's prefix.
retrievePaymentIntent(outcome) ==
    IF outcome.rejected
    THEN [threw |-> TRUE,
          message |-> "Payment intent retrieval failed: " \o outcome.message,
          value |-> NoIntent]
    ELSE [threw |-> FALSE, message |-> "", value |-> outcome.value]

\* stripeGateway.createPaymentIntent, after its await.
createPaymentIntent(outcome) ==
    IF outcome.rejected
    THEN [threw |-> TRUE,
          message |-> "Payment intent creation failed: " \o outcome.message,
          value |-> NoIntent]
    ELSE [threw |-> FALSE, message |-> "", value |-> outcome.value]

\* Amounts are decimal numbers given in thousandths of the currency unit
\* (1005 is 1.005). The double `amount * 100` is the decimal product, in
\* tenths of a cent, off by the rounding error of the double arithmetic;
\* err is the sign of that error, which decides Math.round only when the
\* decimal product lies exactly halfway between two integers.
Float100Error ==
    [m \in {1005, 1255, 145} |-> -1] @@ [m \in {8345} |-> 1]

\* amount * 100
Times100(amount) ==
    [tenths |-> amount,
     err |-> IF amount \in DOMAIN Float100Error THEN Float100Error[amount]
             ELSE 0]

\* Math.floor in the place of Math.round.
MathRound_Floor(x) == x.tenths \div 10

\* Math.round(x): floor(x + 0.5)
MathRound(x) ==
    IF x.tenths % 10 = 5
    THEN IF x.err < 0 THEN x.tenths \div 10 ELSE x.tenths \div 10 + 1
    ELSE (x.tenths + 5) \div 10

\* The object createPaymentIntent(amount, currency = 'usd') hands to
\* stripe.paymentIntents.create.
createPaymentIntentParams(amount, currency) ==
    [amount |-> MathRound(Times100(amount)),
     currency |-> IF currency = Undefined THEN "usd" ELSE String(currency),
     automatic_payment_methods |-> [enabled |-> TRUE]]

\* The call the route's createPaymentIntent(amount) issues.
CreateCall(amount) ==
    [op |-> "paymentIntents.create",
     args |-> createPaymentIntentParams(amount, Undefined)]

RetrieveCall(id) == [op |-> "paymentIntents.retrieve", args |-> [id |-> id]]

\* The calls a handler made, the last one now settled with its outcome.
SettledCalls(calls, outcome) ==
    [i \in 1..Len(calls) |->
        [op |-> calls[i].op, args |-> calls[i].args, outcome |-> outcome]]

(***************************************************************************)
(* Decimal formatting                                                      *)
(***************************************************************************)
Digit(d) == SubSeq("0123456789", d + 1, d + 1)

RECURSIVE NatToString(_)
NatToString(n) ==
    IF n < 10 THEN Digit(n) ELSE NatToString(n \div 10) \o Digit(n % 10)

\* Formatting without the fixed number of fractional digits.
toFixed2_NoPadding(cents) ==
    NatToString(cents \div 100) \o "." \o NatToString(cents % 100)

\* (cents / 100).toFixed(2) for a non-negative integer number of cents.
toFixed2(cents) ==
    NatToString(cents \div 100) \o "." \o Digit((cents % 100) \div 10)
        \o Digit(cents % 10)

(***************************************************************************)
(* lib/stripe-gateway.js: transaction.find                                 *)
(***************************************************************************)
NoTransaction ==
    [id |-> "", status |-> Undefined, amount |-> "", currency |-> ""]

\* transaction.find handing on the processor's status unmapped.
transactionFind_RawStatus(outcome) ==
    LET r == retrievePaymentIntent(outcome)
    IN  IF r.threw \/ ~r.value.defined
        THEN [threw |-> TRUE,
              message |-> "Transaction not found: " \o r.message,
              value |-> NoTransaction]
        ELSE [threw |-> FALSE, message |-> "",
              value |-> [id |-> r.value.id,
                         status |-> r.value.status,
                         amount |-> toFixed2(r.value.amount),
                         currency |-> r.value.currency]]

\* transaction.find, after the await of retrievePaymentIntent: the mapped
\* transaction; a rejection, or a TypeError from reading a missing intent,
\* is rethrown as 'Transaction not found: ...'.
transactionFind(outcome) ==
    LET r == retrievePaymentIntent(outcome)
    IN  IF r.threw
        THEN [threw |-> TRUE,
              message |-> "Transaction not found: " \o r.message,
              value |-> NoTransaction]
        ELSE IF ~r.value.defined
        THEN [threw |-> TRUE,
              message |-> "Transaction not found: Cannot read properties of undefined (reading 'id')",
              value |-> NoTransaction]
        ELSE [threw |-> FALSE, message |-> "",
              value |-> [id |-> r.value.id,
                         status |-> mapStripeStatusToBraintree(r.value.status),
                         amount |-> toFixed2(r.value.amount),
                         currency |-> r.value.currency]]

(***************************************************************************)
(* lib/stripe-gateway.js: the remaining adapter methods and the shim       *)
(***************************************************************************)
\* What a gateway method does with the settled SDK call: hand on the
\* resolved value, or throw a new Error with the method's prefix.
rethrow(prefix, outcome) ==
    IF outcome.rejected
    THEN [threw |-> TRUE, message |-> prefix \o ": " \o outcome.message,
          value |-> NoIntent]
    ELSE [threw |-> FALSE, message |-> "", value |-> outcome.value]

\* The same for the list methods, which return the `data` of the result.
rethrowList(prefix, outcome) ==
    IF outcome.rejected
    THEN [threw |-> TRUE, message |-> prefix \o ": " \o outcome.message,
          value |-> NoIntent]
    ELSE [threw |-> FALSE, message |-> "", value |-> outcome.value.data]

confirmPaymentIntent(outcome) ==
    rethrow("Payment confirmation failed", outcome)

createCheckoutSession(outcome) ==
    rethrow("Checkout session creation failed", outcome)

retrieveSession(outcome) == rethrow("Session retrieval failed", outcome)

createCustomer(outcome) == rethrow("Customer creation failed", outcome)

retrieveCustomer(outcome) == rethrow("Customer retrieval failed", outcome)

updateCustomer(outcome) == rethrow("Customer update failed", outcome)

attachPaymentMethod(outcome) ==
    rethrow("Payment method attachment failed", outcome)

listPaymentMethods(outcome) ==
    rethrowList("Payment method listing failed", outcome)

detachPaymentMethod(outcome) ==
    rethrow("Payment method detachment failed", outcome)

setDefaultPaymentMethod(outcome) ==
    rethrow("Setting default payment method failed", outcome)

createPaymentIntentWithCustomer(outcome) ==
    rethrow("Payment intent with customer creation failed", outcome)

\* null, and a number given in thousandths of a major unit.
Null == [t |-> "null", v |-> "null"]

Num(n) == [t |-> "number", n |-> n]

\* Refund data leaving out every falsy amount.
createRefundData_Truthy(paymentIntentId, amount, reason) ==
    LET a == IF amount = Undefined THEN Null ELSE amount
        refundData ==
            [payment_intent |-> paymentIntentId,
             reason |-> IF reason = Undefined
                        THEN Str("requested_by_customer") ELSE reason]
    IN  IF a # Null /\ a.n # 0
        THEN [payment_intent |-> refundData.payment_intent,
              reason |-> refundData.reason,
              amount |-> MathRound(Times100(a.n))]
        ELSE refundData

\* The refundData createRefund(paymentIntentId, amount = null,
\* reason = 'requested_by_customer') hands to stripe.refunds.create: the
\* amount field is added only if amount !== null.
createRefundData(paymentIntentId, amount, reason) ==
    LET a == IF amount = Undefined THEN Null ELSE amount
        refundData ==
            [payment_intent |-> paymentIntentId,
             reason |-> IF reason = Undefined
                        THEN Str("requested_by_customer") ELSE reason]
    IN  IF a # Null
        THEN [payment_intent |-> refundData.payment_intent,
              reason |-> refundData.reason,
              amount |-> MathRound(Times100(a.n))]
        ELSE refundData

createRefund(outcome) == rethrow("Refund creation failed", outcome)

retrieveRefund(outcome) == rethrow("Refund retrieval failed", outcome)

\* A listing that answers a failure with the empty list.
listRefunds_Swallow(outcome) ==
    IF outcome.rejected
    THEN [threw |-> FALSE, message |-> "", value |-> <<>>]
    ELSE [threw |-> FALSE, message |-> "", value |-> outcome.value.data]

listRefunds(outcome) == rethrowList("Refund listing failed", outcome)

updateRefund(outcome) == rethrow("Refund update failed", outcome)

\* The methods returning a list.
ListMethods == {"listPaymentMethods", "listRefunds"}

\* The async adapter methods of the stripeGateway object.
AdapterMethods ==
    {"createPaymentIntent", "retrievePaymentIntent", "confirmPaymentIntent",
     "createCheckoutSession", "retrieveSession", "createCustomer",
     "retrieveCustomer", "updateCustomer", "attachPaymentMethod",
     "detachPaymentMethod", "setDefaultPaymentMethod",
     "createPaymentIntentWithCustomer", "createRefund", "retrieveRefund",
     "updateRefund"} \cup ListMethods

\* stripeGateway[method], from the settling of its SDK call on.
stripeGateway(method, outcome) ==
    CASE method = "createPaymentIntent" -> createPaymentIntent(outcome)
      [] method = "retrievePaymentIntent" -> retrievePaymentIntent(outcome)
      [] method = "confirmPaymentIntent" -> confirmPaymentIntent(outcome)
      [] method = "createCheckoutSession" -> createCheckoutSession(outcome)
      [] method = "retrieveSession" -> retrieveSession(outcome)
      [] method = "createCustomer" -> createCustomer(outcome)
      [] method = "retrieveCustomer" -> retrieveCustomer(outcome)
      [] method = "updateCustomer" -> updateCustomer(outcome)
      [] method = "attachPaymentMethod" -> attachPaymentMethod(outcome)
      [] method = "listPaymentMethods" -> listPaymentMethods(outcome)
      [] method = "detachPaymentMethod" -> detachPaymentMethod(outcome)
      [] method = "setDefaultPaymentMethod" ->
             setDefaultPaymentMethod(outcome)
      [] method = "createPaymentIntentWithCustomer" ->
             createPaymentIntentWithCustomer(outcome)
      [] method = "createRefund" -> createRefund(outcome)
      [] method = "retrieveRefund" -> retrieveRefund(outcome)
      [] method = "listRefunds" -> listRefunds(outcome)
      [] method = "updateRefund" -> updateRefund(outcome)

NoSale ==
    [success |-> FALSE, transaction |-> NoTransaction, errors |-> <<>>]

\* A sale reporting the legacy status.
transactionSale_MappedStatus(outcome) ==
    LET r == createPaymentIntent(outcome)
    IN  IF r.threw \/ ~r.value.defined
        THEN [threw |-> FALSE, message |-> "",
              value |-> [NoSale EXCEPT !.errors =
                            <<[code |-> "PAYMENT_FAILED",
                               message |-> r.message]>>]]
        ELSE [threw |-> FALSE, message |-> "",
              value |-> [success |-> TRUE,
                         transaction |->
                             [id |-> r.value.id,
                              status |->
                                  mapStripeStatusToBraintree(r.value.status),
                              amount |-> toFixed2(r.value.amount),
                              currency |-> r.value.currency],
                         errors |-> <<>>]]

\* transaction.sale, from the settling of the create call on: the created
\* intent in the legacy shape, or the caught error in an errors container
\* (errors is what errors.deepErrors() returns). Reading a missing intent
\* raises a TypeError inside the same try block.
transactionSale(outcome) ==
    LET r == createPaymentIntent(outcome)
    IN  IF r.threw \/ ~r.value.defined
        THEN [threw |-> FALSE, message |-> "",
              value |-> [NoSale EXCEPT !.errors =
                            <<[code |-> "PAYMENT_FAILED",
                               message |->
                                   IF r.threw THEN r.message
                                   ELSE "Cannot read properties of undefined (reading 'id')"]>>]]
        ELSE [threw |-> FALSE, message |-> "",
              value |-> [success |-> TRUE,
                         transaction |->
                             [id |-> r.value.id,
                              status |-> r.value.status,
                              amount |-> toFixed2(r.value.amount),
                              currency |-> r.value.currency],
                         errors |-> <<>>]]

(***************************************************************************)
(* routes/index.js: the checkout routes                                    *)
(***************************************************************************)
\* What a route reads of a request: the session (cookie), the intent id
\* (path parameter, body field or query parameter), the amount and the
\* redirect_status query parameter.
Req(session, id, amount, redirect_status) ==
    [session |-> session, id |-> id, amount |-> amount,
     redirect_status |-> redirect_status]

\* router.get('/', ...)
getRoot ==
    Redirect("GET /", Req("", Undefined, 0, Undefined), "/checkouts/new",
             <<>>, <<>>, <<>>)

\* stripeGateway.getPublishableKey()
getPublishableKey == env.STRIPE_PUBLISHABLE_KEY

\* router.get('/checkouts/new', ...): req.flash('error') returns the queued
\* messages of the session (and empties the queue, see GetCheckoutsNew).
getCheckoutsNew(req) ==
    Render("GET /checkouts/new", req, "checkouts/new",
           [clientToken |-> getPublishableKey,
            messages |-> flash[req.session],
            useStripe |-> TRUE],
           <<>>, <<>>)

\* The handler trusting any request that names a payment intent.
getCheckoutsComplete_IgnoreStatus(req) ==
    LET route == "GET /checkouts/complete"
    IN  IF Truthy(req.id)
        THEN Redirect(route, req, "/checkouts/" \o String(req.id),
                      <<>>, <<>>, <<>>)
        ELSE Redirect(route, req, "/checkouts/new",
                      <<"Payment was not completed">>, <<>>, <<>>)

\* router.get('/checkouts/complete', ...)
getCheckoutsComplete(req) ==
    LET route == "GET /checkouts/complete"
        line == "Checkout complete - payment_intent: " \o String(req.id)
                    \o ", redirect_status: " \o String(req.redirect_status)
    IN  IF req.redirect_status = Str("succeeded") /\ Truthy(req.id)
        THEN Redirect(route, req, "/checkouts/" \o String(req.id),
                      <<>>, <<line>>, <<>>)
        ELSE Redirect(route, req, "/checkouts/new",
                      <<"Payment was not completed">>, <<line>>, <<>>)

\* The handler without its try/catch: the error of a failed retrieval leaves
\* the async handler, whose promise nobody awaits.
getCheckoutsId_NoCatch(req, outcome, calls) ==
    LET route == "GET /checkouts/:id"
        f == transactionFind(outcome)
    IN  IF f.threw
        THEN Escaped(route, req, <<>>, calls)
        ELSE Render(route, req, "checkouts/show",
                    [transaction |-> f.value,
                     result |-> createResultObject(f.value)],
                    <<>>, calls)

\* A handler that takes the word of the query string for the outcome.
getCheckoutsId_TrustQuery(req, outcome, calls) ==
    LET route == "GET /checkouts/:id"
        f == transactionFind(outcome)
    IN  IF f.threw
        THEN Redirect(route, req, "/checkouts/new",
                      <<"Transaction not found">>,
                      <<"Error retrieving transaction: Error: " \o f.message>>,
                      calls)
        ELSE Render(route, req, "checkouts/show",
                    [transaction |-> f.value,
                     result |-> IF req.redirect_status = Str("succeeded")
                                THEN createResultObject(
                                         [f.value EXCEPT !.status = Str("succeeded")])
                                ELSE createResultObject(f.value)],
                    <<>>, calls)

\* The handler answering a failed retrieval with an error status.
getCheckoutsId_Status500(req, outcome, calls) ==
    LET route == "GET /checkouts/:id"
        f == transactionFind(outcome)
    IN  IF f.threw
        THEN Send(route, req, 500, "Transaction not found", <<>>, calls)
        ELSE Render(route, req, "checkouts/show",
                    [transaction |-> f.value,
                     result |-> createResultObject(f.value)],
                    <<>>, calls)

\* router.get('/checkouts/:id', ...), from the await of transaction.find on.
getCheckoutsId(req, outcome, calls) ==
    LET route == "GET /checkouts/:id"
        f == transactionFind(outcome)
    IN  IF f.threw
        THEN Redirect(route, req, "/checkouts/new",
                      <<"Transaction not found">>,
                      <<"Error retrieving transaction: Error: " \o f.message>>,
                      calls)
        ELSE Render(route, req, "checkouts/show",
                    [transaction |-> f.value,
                     result |-> createResultObject(f.value)],
                    <<>>, calls)

\* The handler answering a failed creation with 500.
postCreatePaymentIntent_Status500(req, outcome, calls) ==
    LET route == "POST /api/create-payment-intent"
        r == createPaymentIntent(outcome)
    IN  IF r.threw \/ ~r.value.defined
        THEN Json(route, req, 500,
                  [error |-> "Payment intent creation failed. Please try again."],
                  <<>>, calls)
        ELSE Json(route, req, 200,
                  [clientSecret |-> r.value.client_secret,
                   paymentIntentId |-> r.value.id],
                  <<>>, calls)

\* router.post('/api/create-payment-intent', ...), from the await on.
postCreatePaymentIntent(req, outcome, calls) ==
    LET route == "POST /api/create-payment-intent"
        r == createPaymentIntent(outcome)
    IN  IF r.threw \/ ~r.value.defined
        THEN Json(route, req, 400,
                  [error |-> "Payment intent creation failed. Please try again."],
                  <<"Error creating payment intent: Error: " \o
                      (IF r.threw THEN r.message
                       ELSE "Cannot read properties of undefined (reading 'client_secret')")>>,
                  calls)
        ELSE Json(route, req, 200,
                  [clientSecret |-> r.value.client_secret,
                   paymentIntentId |-> r.value.id],
                  <<>>, calls)

\* router.post('/checkouts', ...) when the body carries no payment intent ID.
postCheckoutsMissingId(req) ==
    Redirect("POST /checkouts", req, "checkouts/new",
             <<"Payment intent ID is required">>, <<>>, <<>>)

\* The handler accepting a payment that is still processing.
postCheckouts_ProcessingOk(req, outcome, calls) ==
    LET route == "POST /checkouts"
        r == retrievePaymentIntent(outcome)
        paymentIntent == r.value
    IN  IF r.threw \/ ~paymentIntent.defined
        THEN Redirect(route, req, "checkouts/new",
                      <<"Payment processing failed">>, <<>>, calls)
        ELSE IF paymentIntent.status = Str("succeeded")
                \/ paymentIntent.status = Str("processing")
        THEN Redirect(route, req, "/checkouts/" \o String(req.id),
                      <<>>, <<>>, calls)
        ELSE IF paymentIntent.status = Str("requires_action")
                \/ paymentIntent.status = Str("requires_confirmation")
        THEN Redirect(route, req, "checkouts/new",
                      <<"Payment requires additional verification">>,
                      <<>>, calls)
        ELSE Redirect(route, req, "checkouts/new",
                      <<"Payment failed with status: "
                          \o String(paymentIntent.status)>>,
                      <<>>, calls)

\* The handler flashing the caught error's message.
postCheckouts_FlashDetail(req, outcome, calls) ==
    LET route == "POST /checkouts"
        r == retrievePaymentIntent(outcome)
        paymentIntent == r.value
    IN  IF r.threw \/ ~paymentIntent.defined
        THEN Redirect(route, req, "checkouts/new",
                      <<IF r.threw THEN r.message
                        ELSE "Cannot read properties of undefined (reading 'status')">>,
                      <<"Error processing Stripe payment: Error: " \o
                          (IF r.threw THEN r.message
                           ELSE "Cannot read properties of undefined (reading 'status')")>>,
                      calls)
        ELSE IF paymentIntent.status = Str("succeeded")
        THEN Redirect(route, req, "/checkouts/" \o String(req.id),
                      <<>>, <<>>, calls)
        ELSE IF paymentIntent.status = Str("requires_action")
                \/ paymentIntent.status = Str("requires_confirmation")
        THEN Redirect(route, req, "checkouts/new",
                      <<"Payment requires additional verification">>,
                      <<>>, calls)
        ELSE Redirect(route, req, "checkouts/new",
                      <<"Payment failed with status: "
                          \o String(paymentIntent.status)>>,
                      <<>>, calls)

\* The handler without the catch block around the retrieval.
postCheckouts_NoCatch(req, outcome, calls) ==
    LET route == "POST /checkouts"
        r == retrievePaymentIntent(outcome)
        paymentIntent == r.value
    IN  IF r.threw \/ ~paymentIntent.defined
        THEN Escaped(route, req, <<>>, calls)
        ELSE IF paymentIntent.status = Str("succeeded")
        THEN Redirect(route, req, "/checkouts/" \o String(req.id),
                      <<>>, <<>>, calls)
        ELSE IF paymentIntent.status = Str("requires_action")
                \/ paymentIntent.status = Str("requires_confirmation")
        THEN Redirect(route, req, "checkouts/new",
                      <<"Payment requires additional verification">>,
                      <<>>, calls)
        ELSE Redirect(route, req, "checkouts/new",
                      <<"Payment failed with status: "
                          \o String(paymentIntent.status)>>,
                      <<>>, calls)

\* A handler that sends a payment awaiting verification to its show page.
postCheckouts_AcceptVerification(req, outcome, calls) ==
    LET route == "POST /checkouts"
        r == retrievePaymentIntent(outcome)
        paymentIntent == r.value
    IN  IF r.threw \/ ~paymentIntent.defined
        THEN Redirect(route, req, "checkouts/new",
                      <<"Payment processing failed">>,
                      <<"Error processing Stripe payment: Error: " \o
                          (IF r.threw THEN r.message
                           ELSE "Cannot read properties of undefined (reading 'status')")>>,
                      calls)
        ELSE IF paymentIntent.status = Str("succeeded")
        THEN Redirect(route, req, "/checkouts/" \o String(req.id),
                      <<>>, <<>>, calls)
        ELSE IF paymentIntent.status = Str("requires_action")
                \/ paymentIntent.status = Str("requires_confirmation")
        THEN Redirect(route, req, "/checkouts/" \o String(req.id),
                      <<>>, <<>>, calls)
        ELSE Redirect(route, req, "checkouts/new",
                      <<"Payment failed with status: "
                          \o String(paymentIntent.status)>>,
                      <<>>, calls)

\* router.post('/checkouts', ...), from the await of retrievePaymentIntent on.
postCheckouts(req, outcome, calls) ==
    LET route == "POST /checkouts"
        r == retrievePaymentIntent(outcome)
        paymentIntent == r.value
    IN  IF r.threw \/ ~paymentIntent.defined
        THEN Redirect(route, req, "checkouts/new",
                      <<"Payment processing failed">>,
                      <<"Error processing Stripe payment: Error: " \o
                          (IF r.threw THEN r.message
                           ELSE "Cannot read properties of undefined (reading 'status')")>>,
                      calls)
        ELSE IF paymentIntent.status = Str("succeeded")
        THEN Redirect(route, req, "/checkouts/" \o String(req.id),
                      <<>>, <<>>, calls)
        ELSE IF paymentIntent.status = Str("requires_action")
                \/ paymentIntent.status = Str("requires_confirmation")
        THEN Redirect(route, req, "checkouts/new",
                      <<"Payment requires additional verification">>,
                      <<>>, calls)
        ELSE Redirect(route, req, "checkouts/new",
                      <<"Payment failed with status: "
                          \o String(paymentIntent.status)>>,
                      <<>>, calls)

(***************************************************************************)
(* Sessions (express-session with connect-flash)                           *)
(***************************************************************************)
\* connect-flash keeps one queue of 'error' messages per session:
\* req.flash('error', m) appends to it, req.flash('error') returns and
\* empties it.

\* Number of flash messages queued over all sessions.
RECURSIVE SumLen(_, _)
SumLen(f, S) ==
    IF S = {} THEN 0
    ELSE LET x == CHOOSE y \in S : TRUE
         IN  Len(f[x]) + SumLen(f, S \ {x})

\* A request that may queue a flash message is admitted while the queue has
\* room for it and for those of the suspended requests.
FlashRoom == SumLen(flash, Sessions) + Cardinality(pending) < MaxFlash

\* req.flash('error', {msg}) for each message the response queued.
Flashed(r) ==
    IF r.flashed = <<>> THEN flash
    ELSE [flash EXCEPT ![r.req.session] = @ \o r.flashed]

(***************************************************************************)
(* Actions of Spec: the checkout routes and the processor                  *)
(***************************************************************************)
JsIds == {Str("pi_1"), Str("pi_unknown")}

BodyIds == JsIds \cup {Undefined, Str("")}

RedirectStatuses == {Undefined, Str("succeeded"), Str("failed")}

\* req.body.amount, in thousandths: 10, 50.00, 10.999 and two amounts whose
\* hundredfold lies halfway between two integers (1.005, 8.345).
Amounts == {10000, 50000, 10999, 1005, 8345}

GetRoot ==
    /\ resp' = getRoot
    /\ UNCHANGED <<fnVars, auxVars, gw, env, intents, flash, pending>>

GetCheckoutsNew(session) ==
    /\ resp' = getCheckoutsNew(Req(session, Undefined, 0, Undefined))
    /\ flash' = [flash EXCEPT ![session] = <<>>]
    /\ UNCHANGED <<fnVars, auxVars, gw, env, intents, pending>>

GetCheckoutsComplete(session, id, redirect_status) ==
    /\ FlashRoom
    /\ resp' = getCheckoutsComplete(Req(session, id, 0, redirect_status))
    /\ flash' = Flashed(resp')
    /\ UNCHANGED <<fnVars, auxVars, gw, env, intents, pending>>

\* A handler runs up to its await: the processor call is issued and the
\* request is suspended.
Suspend(route, req, call) ==
    /\ Cardinality(pending) < MaxPending
    /\ pending' = pending \cup {[route |-> route, req |-> req,
                                 calls |-> <<call>>]}
    /\ resp' = NoResp

GetCheckoutsIdStart(session, id) ==
    /\ FlashRoom
    /\ Suspend("GET /checkouts/:id", Req(session, id, 0, Undefined),
               RetrieveCall(id))
    /\ UNCHANGED <<fnVars, auxVars, gw, env, intents, flash>>

GetCheckoutsIdResume(p, outcome) ==
    /\ p.route = "GET /checkouts/:id"
    /\ outcome \in sdkRetrieve(p.req.id)
    /\ resp' = getCheckoutsId(p.req, outcome, SettledCalls(p.calls, outcome))
    /\ flash' = Flashed(resp')
    /\ pending' = pending \ {p}
    /\ UNCHANGED <<fnVars, auxVars, gw, env, intents>>

PostCreatePaymentIntentStart(amount) ==
    /\ Suspend("POST /api/create-payment-intent",
               Req("", Undefined, amount, Undefined), CreateCall(amount))
    /\ UNCHANGED <<fnVars, auxVars, gw, env, intents, flash>>

PostCreatePaymentIntentResume(p, outcome) ==
    /\ p.route = "POST /api/create-payment-intent"
    /\ outcome \in sdkCreate(p.calls[1].args)
    /\ resp' = postCreatePaymentIntent(p.req, outcome,
                                       SettledCalls(p.calls, outcome))
    /\ pending' = pending \ {p}
    /\ UNCHANGED <<fnVars, auxVars, gw, env, intents, flash>>

\* The handler testing the ID against undefined only.
PostCheckoutsStart_UndefinedOnly(session, id) ==
    /\ FlashRoom
    /\ IF id = Undefined
       THEN /\ resp' = postCheckoutsMissingId(Req(session, id, 0, Undefined))
            /\ flash' = Flashed(resp')
            /\ UNCHANGED pending
       ELSE /\ Suspend("POST /checkouts", Req(session, id, 0, Undefined),
                       RetrieveCall(id))
            /\ UNCHANGED flash
    /\ UNCHANGED <<fnVars, auxVars, gw, env, intents>>

\* router.post('/checkouts', ...) up to its first response or await.
PostCheckoutsStart(session, id) ==
    /\ FlashRoom
    /\ IF ~Truthy(id)
       THEN /\ resp' = postCheckoutsMissingId(Req(session, id, 0, Undefined))
            /\ flash' = Flashed(resp')
            /\ UNCHANGED pending
       ELSE /\ Suspend("POST /checkouts", Req(session, id, 0, Undefined),
                       RetrieveCall(id))
            /\ UNCHANGED flash
    /\ UNCHANGED <<fnVars, auxVars, gw, env, intents>>

\* The intents POST /checkouts has sent the client to the show page of, the
\* response r counted in.
Accepted(r) ==
    IF /\ r.route = "POST /checkouts"
       /\ r.status = 302
       /\ r.location = "/checkouts/" \o String(r.req.id)
    THEN accepted \cup {r.req.id}
    ELSE accepted

\* A handler that issues the retrieval once more when it was rejected.
PostCheckoutsResume_RetryOnce(p, outcome) ==
    /\ p.route = "POST /checkouts"
    /\ outcome \in sdkRetrieve(p.req.id)
    /\ IF outcome.rejected /\ Len(p.calls) < 2
       THEN /\ pending' = (pending \ {p}) \cup
                   {[p EXCEPT !.calls = Append(@, RetrieveCall(p.req.id))]}
            /\ resp' = NoResp
            /\ UNCHANGED flash
       ELSE /\ resp' = postCheckouts(p.req, outcome,
                                     SettledCalls(p.calls, outcome))
            /\ flash' = Flashed(resp')
            /\ pending' = pending \ {p}
    /\ accepted' = Accepted(resp')
    /\ UNCHANGED <<fnVars, proc, deliveries, browser, gw, env, intents>>

PostCheckoutsResume(p, outcome) ==
    /\ p.route = "POST /checkouts"
    /\ outcome \in sdkRetrieve(p.req.id)
    /\ resp' = postCheckouts(p.req, outcome, SettledCalls(p.calls, outcome))
    /\ flash' = Flashed(resp')
    /\ pending' = pending \ {p}
    /\ accepted' = Accepted(resp')
    /\ UNCHANGED <<fnVars, proc, deliveries, browser, gw, env, intents>>

\* The processor moves an intent that is not in a terminal status.
ProcessorUpdate(id, status) ==
    /\ intents[id].v \notin {"succeeded", "canceled"}
    /\ intents[id] # Str(status)
    /\ intents' = [intents EXCEPT ![id] = Str(status)]
    /\ resp' = NoResp
    /\ UNCHANGED <<fnVars, auxVars, gw, env, flash, pending>>

ConfiguredEnv ==
    [STRIPE_SECRET_KEY |-> Str("sk_test_mock_key"),
     STRIPE_PUBLISHABLE_KEY |-> Str("pk_test_mock_key"),
     STRIPE_WEBHOOK_SECRET |-> Str("whsec_test")]

\* The process after a successful load of the gateway module under e: the
\* SDK client holds the secret key read at load; startEnv remembers the
\* environment of the start.
Serving(e) ==
    [phase |-> "serving", stripeKey |-> e.STRIPE_SECRET_KEY, startEnv |-> e]

\* No checkout page is open.
NoBrowser == [open |-> FALSE]

FnIdle ==
    /\ fnArg = NotCalled
    /\ fnMapped = NotCalled
    /\ fnResult = NoResult
    /\ fnResultMapped = NoResult

Init ==
    /\ FnIdle
    /\ env = ConfiguredEnv
    /\ intents \in [IntentIds -> {Str(s) : s \in RawStatuses}]
    /\ flash = [s \in Sessions |-> <<>>]
    /\ pending = {}
    /\ gw = NoGw
    /\ proc = Serving(ConfiguredEnv)
    /\ deliveries = <<>>
    /\ browser = NoBrowser
    /\ accepted = {}
    /\ resp = NoResp

Next ==
    \/ GetRoot
    \/ \E s \in Sessions : GetCheckoutsNew(s)
    \/ \E s \in Sessions, id \in BodyIds, rs \in RedirectStatuses :
           GetCheckoutsComplete(s, id, rs)
    \/ \E s \in Sessions, id \in JsIds : GetCheckoutsIdStart(s, id)
    \/ \E p \in pending, o \in UNION {sdkRetrieve(i) : i \in JsIds} :
           GetCheckoutsIdResume(p, o)
    \/ \E a \in Amounts : PostCreatePaymentIntentStart(a)
    \/ \E p \in pending, o \in sdkCreate(<<>>) :
           PostCreatePaymentIntentResume(p, o)
    \/ \E s \in Sessions, id \in BodyIds : PostCheckoutsStart(s, id)
    \/ \E p \in pending, o \in UNION {sdkRetrieve(i) : i \in JsIds} :
           PostCheckoutsResume(p, o)
    \/ \E id \in IntentIds, st \in RawStatuses : ProcessorUpdate(id, st)

Spec == Init /\ [][Next]_vars

(***************************************************************************)
(* SpecWebhook: POST /stripe/webhooks under a changing environment         *)
(***************************************************************************)
\* The handler reads process.env.STRIPE_WEBHOOK_SECRET when the request is
\* handled.
\* A handler using a secret read once, when the module was loaded.
PostStripeWebhooks_StartSecret(sig, body) ==
    /\ resp' = webhookHandler([sig |-> sig, body |-> body],
                              proc.startEnv.STRIPE_WEBHOOK_SECRET)
    /\ UNCHANGED <<fnVars, auxVars, gw, env, intents, flash, pending>>

PostStripeWebhooks(sig, body) ==
    /\ resp' = webhookHandler([sig |-> sig, body |-> body],
                              env.STRIPE_WEBHOOK_SECRET)
    /\ UNCHANGED <<fnVars, auxVars, gw, env, intents, flash, pending>>

\* process.env.STRIPE_WEBHOOK_SECRET is set or deleted while the process
\* runs.
EnvChange(secret) ==
    /\ env.STRIPE_WEBHOOK_SECRET # secret
    /\ env' = [env EXCEPT !.STRIPE_WEBHOOK_SECRET = secret]
    /\ resp' = NoResp
    /\ UNCHANGED <<fnVars, auxVars, gw, intents, flash, pending>>

InitWebhook ==
    /\ FnIdle
    /\ env \in {[ConfiguredEnv EXCEPT !.STRIPE_WEBHOOK_SECRET = w] :
                    w \in WebhookSecrets}
    /\ intents = [i \in IntentIds |-> Str("requires_payment_method")]
    /\ flash = [s \in Sessions |-> <<>>]
    /\ pending = {}
    /\ gw = NoGw
    /\ proc = Serving(ConfiguredEnv)
    /\ deliveries = <<>>
    /\ browser = NoBrowser
    /\ accepted = {}
    /\ resp = NoResp

NextWebhook ==
    \/ \E sig \in SignatureHeaders, body \in Payloads :
           PostStripeWebhooks(sig, body)
    \/ \E w \in WebhookSecrets : EnvChange(w)

SpecWebhook == InitWebhook /\ [][NextWebhook]_vars

(***************************************************************************)
(* SpecFn: the pure helpers applied to bounded inputs                      *)
(***************************************************************************)
CallMapStatus ==
    /\ fnMapped = NotCalled
    /\ fnMapped' = mapStripeStatusToBraintree(fnArg)
    /\ UNCHANGED <<fnArg, fnResult, fnResultMapped,
                   auxVars, env, intents, flash, pending, gw, resp>>

\* The classifier applied to the status as given.
CallCreateResultObject ==
    /\ fnResult = NoResult
    /\ fnResult' = createResultObject([status |-> fnArg])
    /\ UNCHANGED <<fnArg, fnMapped, fnResultMapped,
                   auxVars, env, intents, flash, pending, gw, resp>>

\* The classifier applied to the mapped status, as GET /checkouts/:id does.
CallCreateResultObjectMapped ==
    /\ fnMapped # NotCalled
    /\ fnResultMapped = NoResult
    /\ fnResultMapped' = createResultObject([status |-> fnMapped])
    /\ UNCHANGED <<fnArg, fnMapped, fnResult,
                   auxVars, env, intents, flash, pending, gw, resp>>

InitFn ==
    /\ fnArg \in {Str(s) : s \in StatusInputs}
    /\ fnMapped = NotCalled
    /\ fnResult = NoResult
    /\ fnResultMapped = NoResult
    /\ env = ConfiguredEnv
    /\ intents = [i \in IntentIds |-> Str("requires_payment_method")]
    /\ flash = [s \in Sessions |-> <<>>]
    /\ pending = {}
    /\ gw = NoGw
    /\ proc = Serving(ConfiguredEnv)
    /\ deliveries = <<>>
    /\ browser = NoBrowser
    /\ accepted = {}
    /\ resp = NoResp

NextFn ==
    \/ CallMapStatus
    \/ CallCreateResultObject
    \/ CallCreateResultObjectMapped

SpecFn == InitFn /\ [][NextFn]_vars

(***************************************************************************)
(* SpecGateway: the gateway and the routes run against a mocked SDK        *)
(***************************************************************************)
\* The largest amount of the contiguous range of minor-unit amounts.
MaxCents == 120

IntentWith(id, status, cents) ==
    [Intent(id, status) EXCEPT !.amount = cents]

\* Other objects of the processor: sessions, customers, payment methods,
\* refunds.
SdkObject(id) == [defined |-> TRUE, id |-> id]

SdkList(items) == [defined |-> TRUE, object |-> "list", data |-> items]

\* How the mocked SDK call of a method may settle.
sdkOutcomes(method) ==
    {Rejected(m) :
        m \in {ConnectionError, NoSuchIntent, "Your card was declined."}} \cup
    (IF method \in {"createPaymentIntent", "retrievePaymentIntent",
                    "confirmPaymentIntent", "createPaymentIntentWithCustomer"}
     THEN {Resolved(IntentWith("pi_1", Str("succeeded"), c)) :
               c \in (0..MaxCents) \cup {1000, 7500, 10000, 12345, 123456}}
          \cup {Resolved(IntentWith("pi_1", Str(st), 7500)) :
                   st \in RawStatuses}
          \cup {Resolved(NoIntent)}
     ELSE IF method \in ListMethods
     THEN {Resolved(SdkList(<<>>)), Resolved(SdkList(<<SdkObject("obj_1")>>)),
           Resolved(SdkList(<<SdkObject("obj_1"), SdkObject("obj_2")>>))}
     ELSE {Resolved(SdkObject("obj_1")), Resolved(NoIntent)})

\* await stripeGateway[method](...)
CallAdapter(method, outcome) ==
    /\ gw' = LET r == stripeGateway(method, outcome)
             IN  [method |-> method,
                  calls |-> <<[op |-> method, outcome |-> outcome]>>,
                  threw |-> r.threw, message |-> r.message,
                  value |-> r.value, page |-> NoResp]
    /\ UNCHANGED <<fnVars, auxVars, env, intents, flash, pending, resp>>

\* await stripeGateway.createRefund(paymentIntentId, amount, reason)
CallCreateRefund(paymentIntentId, amount, reason, outcome) ==
    /\ gw' = LET r == createRefund(outcome)
             IN  [method |-> "createRefund",
                  calls |-> <<[op |-> "refunds.create",
                               given |-> [paymentIntentId |-> paymentIntentId,
                                          amount |-> amount,
                                          reason |-> reason],
                               args |-> createRefundData(paymentIntentId,
                                                         amount, reason),
                               outcome |-> outcome]>>,
                  threw |-> r.threw, message |-> r.message,
                  value |-> r.value, page |-> NoResp]
    /\ UNCHANGED <<fnVars, auxVars, env, intents, flash, pending, resp>>

\* stripeGateway.constructWebhookEvent(payload, signature, webhookSecret)
CallConstructWebhookEvent(payload, signature, webhookSecret) ==
    /\ gw' = LET c == ConstructEventCall(payload, signature, webhookSecret)
                 r == constructWebhookEvent(payload, signature, webhookSecret)
             IN  [method |-> "constructWebhookEvent",
                  calls |-> <<[op |-> c.op,
                               outcome |->
                                   IF c.outcome.threw
                                   THEN Rejected(c.outcome.message)
                                   ELSE Resolved(c.outcome.event)]>>,
                  threw |-> r.threw, message |-> r.message,
                  value |-> r.event, page |-> NoResp]
    /\ UNCHANGED <<fnVars, auxVars, env, intents, flash, pending, resp>>

\* await stripeGateway.transaction.sale({ amount, paymentMethodNonce })
CallTransactionSale(amount, outcome) ==
    /\ gw' = LET r == transactionSale(outcome)
             IN  [method |-> "transaction.sale",
                  calls |-> SettledCalls(<<CreateCall(amount)>>, outcome),
                  threw |-> r.threw, message |-> r.message,
                  value |-> r.value, page |-> NoResp]
    /\ UNCHANGED <<fnVars, auxVars, env, intents, flash, pending, resp>>

\* await stripeGateway.transaction.find(transactionId)
CallTransactionFind(id, outcome) ==
    /\ gw' = LET r == transactionFind(outcome)
             IN  [method |-> "transaction.find",
                  calls |-> SettledCalls(<<RetrieveCall(id)>>, outcome),
                  threw |-> r.threw, message |-> r.message,
                  value |-> r.value, page |-> NoResp]
    /\ UNCHANGED <<fnVars, auxVars, env, intents, flash, pending, resp>>

\* GET /checkouts/:id with the SDK mocked, as the route tests run it.
ShowCheckout(session, id, outcome) ==
    /\ gw' = LET calls == SettledCalls(<<RetrieveCall(id)>>, outcome)
                 r == transactionFind(outcome)
             IN  [method |-> "GET /checkouts/:id",
                  calls |-> calls,
                  threw |-> r.threw, message |-> r.message,
                  value |-> r.value,
                  page |-> getCheckoutsId(Req(session, id, 0, Undefined),
                                          outcome, calls)]
    /\ UNCHANGED <<fnVars, auxVars, env, intents, flash, pending, resp>>

\* POST /api/create-payment-intent with the SDK mocked.
CreatePaymentIntentMocked(amount, outcome) ==
    /\ gw' = LET calls == SettledCalls(<<CreateCall(amount)>>, outcome)
                 r == createPaymentIntent(outcome)
             IN  [method |-> "POST /api/create-payment-intent",
                  calls |-> calls,
                  threw |-> r.threw, message |-> r.message,
                  value |-> r.value,
                  page |-> postCreatePaymentIntent(
                               Req("", Undefined, amount, Undefined),
                               outcome, calls)]
    /\ UNCHANGED <<fnVars, auxVars, env, intents, flash, pending, resp>>

\* POST /checkouts with the SDK mocked.
PostCheckoutsMocked(session, id, outcome) ==
    /\ gw' = LET calls == SettledCalls(<<RetrieveCall(id)>>, outcome)
                 r == retrievePaymentIntent(outcome)
             IN  [method |-> "POST /checkouts",
                  calls |-> calls,
                  threw |-> r.threw, message |-> r.message,
                  value |-> r.value,
                  page |-> postCheckouts(Req(session, id, 0, Undefined),
                                         outcome, calls)]
    /\ UNCHANGED <<fnVars, auxVars, env, intents, flash, pending, resp>>

\* POST /stripe/webhooks with the signing secret configured.
PostStripeWebhooksMocked(sig, body) ==
    /\ gw' = LET r == constructWebhookEvent(body, sig,
                                            env.STRIPE_WEBHOOK_SECRET)
                 page == webhookHandler([sig |-> sig, body |-> body],
                                        env.STRIPE_WEBHOOK_SECRET)
             IN  [method |-> "POST /stripe/webhooks",
                  calls |-> page.calls,
                  threw |-> r.threw, message |-> r.message,
                  value |-> r.event,
                  page |-> page]
    /\ UNCHANGED <<fnVars, auxVars, env, intents, flash, pending, resp>>

InitGateway ==
    /\ fnArg = Str("succeeded")
    /\ fnMapped = NotCalled
    /\ fnResult = NoResult
    /\ fnResultMapped = NoResult
    /\ env = ConfiguredEnv
    /\ intents = [i \in IntentIds |-> Str("requires_payment_method")]
    /\ flash = [s \in Sessions |-> <<>>]
    /\ pending = {}
    /\ gw = NoGw
    /\ proc = Serving(ConfiguredEnv)
    /\ deliveries = <<>>
    /\ browser = NoBrowser
    /\ accepted = {}
    /\ resp = NoResp

NextGateway ==
    \/ \E method \in AdapterMethods : \E outcome \in sdkOutcomes(method) :
           CallAdapter(method, outcome)
    \/ \E payload \in Payloads, signature \in SignatureHeaders,
          webhookSecret \in WebhookSecrets :
           CallConstructWebhookEvent(payload, signature, webhookSecret)
    \/ \E amount \in {Undefined, Null}
                         \cup {Num(a) : a \in {0, 25000, 10999, 1005, 8345}},
          reason \in {Undefined, Str("duplicate"), Str("fraudulent")} :
       \E outcome \in sdkOutcomes("createRefund") :
           CallCreateRefund(Str("pi_1"), amount, reason, outcome)
    \/ \E amount \in {10000, 10999} :
       \E outcome \in sdkOutcomes("createPaymentIntent") :
           CallTransactionSale(amount, outcome)
    \/ \E outcome \in sdkOutcomes("retrievePaymentIntent") :
           CallTransactionFind(Str("pi_1"), outcome)
    \/ \E outcome \in sdkOutcomes("retrievePaymentIntent") :
           ShowCheckout("s1", Str("pi_1"), outcome)
    \/ \E outcome \in sdkOutcomes("createPaymentIntent") :
           CreatePaymentIntentMocked(10000, outcome)
    \/ \E outcome \in sdkOutcomes("retrievePaymentIntent") :
           PostCheckoutsMocked("s1", Str("pi_1"), outcome)
    \/ \E sig \in SignatureHeaders, body \in Payloads :
           PostStripeWebhooksMocked(sig, body)

SpecGateway == InitGateway /\ [][NextGateway]_vars

(***************************************************************************)
(* SpecDeliveries: the processor delivering webhook events repeatedly      *)
(***************************************************************************)
\* Deliveries a run holds.
MaxDeliveries == 2

\* The headers of the deliveries: none, a wrong signature, the valid one.
DeliveredSignatures ==
    {Undefined, Str("t=1234567890,v1=bad"),
     Str("t=1234567890,v1=sig_whsec_test")}

\* A handler that acknowledges an event it has acknowledged before without
\* dispatching it again.
DeliverWebhook_Dedup(sig, body) ==
    /\ Len(deliveries) < MaxDeliveries
    /\ resp' = LET r == webhookHandler([sig |-> sig, body |-> body],
                                      env.STRIPE_WEBHOOK_SECRET)
               IN  IF \E k \in 1..Len(deliveries) :
                          /\ deliveries[k].req.body = body
                          /\ deliveries[k].status = 200
                   THEN Json(r.route, r.req, 200, [received |-> TRUE],
                             <<>>, r.calls)
                   ELSE r
    /\ deliveries' = Append(deliveries, resp')
    /\ UNCHANGED <<fnVars, accepted, gw, proc, browser, env, intents, flash, pending>>

\* One POST /stripe/webhooks, its response kept as the delivery's record.
DeliverWebhook(sig, body) ==
    /\ Len(deliveries) < MaxDeliveries
    /\ resp' = webhookHandler([sig |-> sig, body |-> body],
                              env.STRIPE_WEBHOOK_SECRET)
    /\ deliveries' = Append(deliveries, resp')
    /\ UNCHANGED <<fnVars, accepted, gw, proc, browser, env, intents, flash, pending>>

NextDeliveries ==
    \E sig \in DeliveredSignatures, body \in Payloads :
        DeliverWebhook(sig, body)

SpecDeliveries == InitGateway /\ [][NextDeliveries]_vars

(***************************************************************************)
(* SpecProcess: the process from its start: module load, then requests     *)
(* under an environment that changes                                       *)
(***************************************************************************)
\* What process.env may hold under each name: nothing, the empty string,
\* the configured value, another value.
EnvValues ==
    [STRIPE_SECRET_KEY |->
         {Undefined, Str(""), Str("sk_test_mock_key"), Str("sk_test_other")},
     STRIPE_PUBLISHABLE_KEY |->
         {Undefined, Str(""), Str("pk_test_mock_key"), Str("pk_test_other")},
     STRIPE_WEBHOOK_SECRET |->
         {Undefined, Str(""), Str("whsec_test"), Str("whsec_other")}]

Starting(e) ==
    [phase |-> "starting", stripeKey |-> Undefined, startEnv |-> e]

\* A load that fails only for variables that are not set at all.
LoadGateway_UndefinedOnly ==
    /\ proc.phase = "starting"
    /\ proc' = IF env.STRIPE_SECRET_KEY = Undefined
                  \/ env.STRIPE_PUBLISHABLE_KEY = Undefined
               THEN [proc EXCEPT !.phase = "failed"]
               ELSE Serving(env)
    /\ resp' = NoResp
    /\ UNCHANGED <<fnVars, accepted, gw, deliveries, browser, env, intents, flash,
                   pending>>

\* require('../lib/stripe-gateway'): the check of the two API keys throws,
\* or the SDK client is built from the secret key.
LoadGateway ==
    /\ proc.phase = "starting"
    /\ proc' = IF ~Truthy(env.STRIPE_SECRET_KEY)
                  \/ ~Truthy(env.STRIPE_PUBLISHABLE_KEY)
               THEN [proc EXCEPT !.phase = "failed"]
               ELSE Serving(env)
    /\ resp' = NoResp
    /\ UNCHANGED <<fnVars, accepted, gw, deliveries, browser, env, intents, flash,
                   pending>>

\* process.env[name] is set or deleted while the process serves.
EnvSet(name, value) ==
    /\ proc.phase = "serving"
    /\ env[name] # value
    /\ env' = [env EXCEPT ![name] = value]
    /\ resp' = NoResp
    /\ UNCHANGED <<fnVars, auxVars, gw, intents, flash, pending>>

\* The router is mounted only once the gateway module has loaded.
ServeStripeWebhooks(sig, body) ==
    /\ proc.phase = "serving"
    /\ PostStripeWebhooks(sig, body)

ServeCheckoutsNew(session) ==
    /\ proc.phase = "serving"
    /\ GetCheckoutsNew(session)

InitProcess ==
    /\ FnIdle
    /\ env \in [DOMAIN EnvValues ->
                    {Undefined, Str(""), Str("sk_test_mock_key"),
                     Str("pk_test_mock_key"), Str("whsec_test")}]
    /\ \A name \in DOMAIN EnvValues : env[name] \in EnvValues[name]
    /\ intents = [i \in IntentIds |-> Str("requires_payment_method")]
    /\ flash = [s \in Sessions |-> <<>>]
    /\ pending = {}
    /\ gw = NoGw
    /\ proc = Starting(env)
    /\ deliveries = <<>>
    /\ browser = NoBrowser
    /\ accepted = {}
    /\ resp = NoResp

NextProcess ==
    \/ LoadGateway
    \/ \E name \in DOMAIN EnvValues : \E value \in EnvValues[name] :
           EnvSet(name, value)
    \/ \E sig \in DeliveredSignatures :
           ServeStripeWebhooks(sig, [parses |-> TRUE,
                                     event |-> [type |-> "payment_intent.succeeded",
                                                hasData |-> TRUE,
                                                id |-> "obj_1"]])
    \/ ServeCheckoutsNew("s1")

SpecProcess == InitProcess /\ [][NextProcess]_vars

(***************************************************************************)
(* SpecBrowser: public/javascript/stripe-demo.js on the checkout page      *)
(***************************************************************************)
\* Submissions of the form a run holds.
MaxSubmissions == 2

\* Nothing of a submission has been handled since the last submit event.
NoOutcome == [kind |-> "none", n |-> 0]

\* The page as loaded: the script has run to its end, the button is as the
\* view renders it. flights are the submissions whose promise chain has not
\* settled, each with its position: awaiting the fetch or the confirmation.
LoadedPage ==
    [open |-> TRUE, location |-> "/checkouts/new",
     disabled |-> FALSE, textContent |-> "Test Transaction",
     stripeErrors |-> "", clientSecret |-> Null,
     flights |-> {}, submits |-> 0, fetches |-> 0, handled |-> NoOutcome]

\* How fetch('/api/create-payment-intent') of submission n may settle: the
\* server's 200 with the new intent's secret, a 200 whose body is no JSON,
\* has no clientSecret or carries an error, a status that is not ok, a
\* network failure.
FetchOutcomes(n) ==
    {[kind |-> "ok", data |-> [clientSecret |-> Str("pi_" \o NatToString(n) \o "_secret"),
                               error |-> Undefined]],
     [kind |-> "ok", data |-> [clientSecret |-> Undefined, error |-> Undefined]],
     [kind |-> "ok", data |-> [clientSecret |-> Undefined,
                               error |-> Str("Payment intent creation failed. Please try again.")]],
     [kind |-> "not ok"],
     [kind |-> "no json"],
     [kind |-> "failed"]}

\* How stripe.confirmCardPayment may settle: with an error, with the payment
\* intent in some status, or rejected.
ConfirmOutcomes(n) ==
    {[kind |-> "error", message |-> "Your card was declined."],
     [kind |-> "rejected", message |-> "Missing value for stripe.confirmCardPayment intent secret"]}
        \cup {[kind |-> "paymentIntent", id |-> "pi_" \o NatToString(n),
               status |-> st] : st \in StripeStatuses}

\* displayError(errorMessage)
displayError(page, errorMessage) ==
    [page EXCEPT !.stripeErrors = errorMessage]

\* The .catch of the submit listener's chain: show the error's message and
\* give the button back.
catchError(page, f, message) ==
    [displayError(page, IF message = "" THEN "An unexpected error occurred."
                        ELSE message)
        EXCEPT !.disabled = FALSE, !.textContent = "Test Transaction",
               !.flights = page.flights \ {f},
               !.handled = [kind |-> "caught", n |-> f.n]]

\* A listener that leaves the button enabled while it works.
Submit_ButtonLeftEnabled(amountValue) ==
    /\ browser.open
    /\ browser.location = "/checkouts/new"
    /\ ~browser.disabled
    /\ browser.submits < MaxSubmissions
    /\ browser' =
           [browser EXCEPT
               !.textContent = "Processing...",
               !.submits = @ + 1,
               !.fetches = @ + 1,
               !.flights = @ \cup
                   {[n |-> browser.submits + 1, pc |-> "fetching",
                     amount |-> IF amountValue = "" THEN "10" ELSE amountValue,
                     secret |-> Null, confirmedWith |-> Null]},
               !.handled = NoOutcome]
    /\ UNCHANGED <<fnVars, accepted, gw, proc, deliveries, env, intents, flash,
                   pending, resp>>

\* The form's submit event: the browser fires it for a click on the submit
\* button or an implicit submission, neither of which a disabled button
\* allows. The listener disables the button and starts
\* createPaymentIntent(), which sends the fetch.
Submit(amountValue) ==
    /\ browser.open
    /\ browser.location = "/checkouts/new"
    /\ ~browser.disabled
    /\ browser.submits < MaxSubmissions
    /\ browser' =
           [browser EXCEPT
               !.disabled = TRUE,
               !.textContent = "Processing...",
               !.submits = @ + 1,
               !.fetches = @ + 1,
               !.flights = @ \cup
                   {[n |-> browser.submits + 1, pc |-> "fetching",
                     amount |-> IF amountValue = "" THEN "10" ELSE amountValue,
                     secret |-> Null, confirmedWith |-> Null]},
               !.handled = NoOutcome]
    /\ UNCHANGED <<fnVars, accepted, gw, proc, deliveries, env, intents, flash,
                   pending, resp>>

\* The fetch of a submission settles and the two .then of
\* createPaymentIntent run, then the first .then of the listener: the
\* shared clientSecret is set from the response and handed to
\* stripe.confirmCardPayment in the same turn of the event loop.
FetchSettles(f, outcome) ==
    /\ browser.open
    /\ browser.location = "/checkouts/new"
    /\ f \in browser.flights
    /\ f.pc = "fetching"
    /\ browser' =
           IF outcome.kind = "failed"
           THEN catchError(browser, f, "Failed to fetch")
           ELSE IF outcome.kind = "not ok"
           THEN catchError(browser, f, "Network response was not ok")
           ELSE IF outcome.kind = "no json"
           THEN catchError(browser, f, "Unexpected end of JSON input")
           ELSE IF Truthy(outcome.data.error)
           THEN catchError(browser, f, String(outcome.data.error))
           ELSE LET page == [browser EXCEPT
                                !.clientSecret = outcome.data.clientSecret]
                IN  [page EXCEPT
                        !.flights = (@ \ {f}) \cup
                            {[f EXCEPT !.pc = "confirming",
                                       !.secret = outcome.data.clientSecret,
                                       !.confirmedWith = page.clientSecret]}]
    /\ UNCHANGED <<fnVars, accepted, gw, proc, deliveries, env, intents, flash,
                   pending, resp>>

\* stripe.confirmCardPayment settles and the second .then of the listener
\* runs (or, on a rejection, its .catch).
ConfirmSettles(f, result) ==
    /\ browser.open
    /\ browser.location = "/checkouts/new"
    /\ f \in browser.flights
    /\ f.pc = "confirming"
    /\ browser' =
           IF result.kind = "rejected"
           THEN catchError(browser, f, result.message)
           ELSE IF result.kind = "error"
           THEN [displayError(browser, result.message) EXCEPT
                    !.disabled = FALSE, !.textContent = "Test Transaction",
                    !.flights = @ \ {f},
                    !.handled = [kind |-> "error", n |-> f.n]]
           ELSE IF result.status = "succeeded"
           THEN [browser EXCEPT
                    !.location = "/checkouts/" \o result.id,
                    !.flights = {},
                    !.handled = [kind |-> "succeeded", n |-> f.n]]
           ELSE [browser EXCEPT
                    !.flights = @ \ {f},
                    !.handled = [kind |-> result.status, n |-> f.n]]
    /\ UNCHANGED <<fnVars, accepted, gw, proc, deliveries, env, intents, flash,
                   pending, resp>>

InitBrowser ==
    /\ FnIdle
    /\ env = ConfiguredEnv
    /\ intents = [i \in IntentIds |-> Str("requires_payment_method")]
    /\ flash = [s \in Sessions |-> <<>>]
    /\ pending = {}
    /\ gw = NoGw
    /\ proc = Serving(ConfiguredEnv)
    /\ deliveries = <<>>
    /\ browser = LoadedPage
    /\ accepted = {}
    /\ resp = NoResp

NextBrowser ==
    \/ \E amountValue \in {"", "25"} : Submit(amountValue)
    \/ \E f \in browser.flights : \E outcome \in FetchOutcomes(f.n) :
           FetchSettles(f, outcome)
    \/ \E f \in browser.flights : \E result \in ConfirmOutcomes(f.n) :
           ConfirmSettles(f, result)

SpecBrowser == InitBrowser /\ [][NextBrowser]_vars

(***************************************************************************)
(* SpecLive: every route, each processor call settling eventually          *)
(***************************************************************************)
\* The requests of this specification: one session, one amount, the
\* webhook deliveries that take each path of the handler.
LiveSessions == {"s1"}

LiveAmounts == {10000}

LiveBodyIds == {Undefined, Str("pi_1")}

\* The requests that may be suspended at an await.
LivePending ==
    {[route |-> "GET /checkouts/:id", req |-> Req(s, id, 0, Undefined),
      calls |-> <<RetrieveCall(id)>>] : s \in LiveSessions, id \in JsIds}
    \cup {[route |-> "POST /checkouts", req |-> Req(s, id, 0, Undefined),
           calls |-> <<RetrieveCall(id)>>] :
              s \in LiveSessions, id \in {i \in LiveBodyIds : Truthy(i)}}
    \cup {[route |-> "POST /api/create-payment-intent",
           req |-> Req("", Undefined, a, Undefined),
           calls |-> <<CreateCall(a)>>] : a \in LiveAmounts}

\* The processor call of the suspended request p settles and its handler
\* runs on to its response.
Settle(p) ==
    \/ \E o \in UNION {sdkRetrieve(i) : i \in JsIds} : GetCheckoutsIdResume(p, o)
    \/ \E o \in sdkCreate(<<>>) : PostCreatePaymentIntentResume(p, o)
    \/ \E o \in UNION {sdkRetrieve(i) : i \in JsIds} : PostCheckoutsResume(p, o)

InitLive ==
    /\ FnIdle
    /\ env = ConfiguredEnv
    /\ intents = [i \in IntentIds |-> Str("requires_payment_method")]
    /\ flash = [s \in Sessions |-> <<>>]
    /\ pending = {}
    /\ gw = NoGw
    /\ proc = Serving(ConfiguredEnv)
    /\ deliveries = <<>>
    /\ browser = NoBrowser
    /\ accepted = {}
    /\ resp = NoResp

NextLive ==
    \/ GetRoot
    \/ \E s \in LiveSessions : GetCheckoutsNew(s)
    \/ \E s \in LiveSessions, id \in LiveBodyIds :
           GetCheckoutsComplete(s, id, Str("succeeded"))
    \/ \E s \in LiveSessions, id \in JsIds : GetCheckoutsIdStart(s, id)
    \/ \E a \in LiveAmounts : PostCreatePaymentIntentStart(a)
    \/ \E s \in LiveSessions, id \in LiveBodyIds : PostCheckoutsStart(s, id)
    \/ \E sig \in {Undefined, Str("t=1234567890,v1=sig_whsec_test")},
          body \in {b \in Payloads :
                       ~b.parses \/ b.event.type = "charge.refunded"} :
           PostStripeWebhooks(sig, body)
    \/ \E p \in pending : Settle(p)
    \/ \E id \in IntentIds, st \in {"processing", "succeeded"} : ProcessorUpdate(id, st)

\* Every processor call eventually resolves or rejects.
SpecLive ==
    InitLive /\ [][NextLive]_vars /\ \A p \in LivePending : WF_vars(Settle(p))

(***************************************************************************)
(* SpecFollow: the return from the processor's page and its redirect       *)
(***************************************************************************)
\* The position of the first '?' of a URL, or one past its end.
QueryStart(url) ==
    IF \E i \in 1..Len(url) : SubSeq(url, i, i) = "?"
    THEN CHOOSE i \in 1..Len(url) :
             /\ SubSeq(url, i, i) = "?"
             /\ \A j \in 1..(i - 1) : SubSeq(url, j, j) # "?"
    ELSE Len(url) + 1

\* req.params.id of a request for the URL /checkouts/<id>[?query]
ParamsId(url) == Str(SubSeq(url, Len("/checkouts/") + 1, QueryStart(url) - 1))

\* req.query.redirect_status of a request for the URL.
QueryRedirectStatus(url) ==
    LET query == SubSeq(url, QueryStart(url) + 1, Len(url))
        name == "redirect_status="
    IN  IF Len(query) >= Len(name) /\ SubSeq(query, 1, Len(name)) = name
        THEN Str(SubSeq(query, Len(name) + 1, Len(query)))
        ELSE Undefined

\* The client follows the redirect GET /checkouts/complete answered with:
\* it requests the Location, which the router gives to GET /checkouts/:id.
FollowRedirect ==
    /\ resp.route = "GET /checkouts/complete"
    /\ resp.status = 302
    /\ resp.location # "/checkouts/new"
    /\ FlashRoom
    /\ Suspend("GET /checkouts/:id",
               Req(resp.req.session, ParamsId(resp.location), 0,
                   QueryRedirectStatus(resp.location)),
               RetrieveCall(ParamsId(resp.location)))
    /\ UNCHANGED <<fnVars, auxVars, gw, env, intents, flash>>

NextFollow ==
    \* payment_intent: absent, an intent, an unknown intent, and an intent
    \* with a query string of the client's own behind it
    \/ \E s \in Sessions,
          id \in {Undefined, Str("pi_1"), Str("pi_unknown"),
                  Str("pi_1?redirect_status=succeeded")},
          rs \in RedirectStatuses :
           GetCheckoutsComplete(s, id, rs)
    \/ FollowRedirect
    \/ \E p \in pending, o \in UNION {sdkRetrieve(i) : i \in JsIds} :
           GetCheckoutsIdResume(p, o)
    \/ \E s \in Sessions : GetCheckoutsNew(s)
    \/ \E id \in IntentIds, st \in RawStatuses : ProcessorUpdate(id, st)

SpecFollow == Init /\ [][NextFollow]_vars

(***************************************************************************)
(* SpecSession: the session store under overlapping requests               *)
(***************************************************************************)
\* express-session (app.js: saveUninitialized and resave both true, the
\* default MemoryStore) gives every request its own copy of the session,
\* parsed from the store when the request arrives, and writes that copy
\* back when the response ends, whether the request changed it or not.
\* A request that awaits the processor holds its copy over the await; the
\* handlers without an await are taken as one step.

\* The request arrives: its session is loaded, the handler runs up to its
\* await.
SessionStart(route, req, call) ==
    /\ Cardinality(pending) < MaxPending
    /\ route # "POST /api/create-payment-intent" =>
           Len(flash[req.session]) < MaxFlash
    /\ pending' = pending \cup
           {[route |-> route, req |-> req, calls |-> <<call>>,
             sess |-> flash[req.session]]}
    /\ resp' = NoResp
    /\ UNCHANGED <<fnVars, auxVars, gw, env, intents, flash>>

\* The handler of the suspended request p, from its await on.
handlerAfterAwait(p, outcome) ==
    IF p.route = "GET /checkouts/:id"
    THEN getCheckoutsId(p.req, outcome, SettledCalls(p.calls, outcome))
    ELSE IF p.route = "POST /checkouts"
    THEN postCheckouts(p.req, outcome, SettledCalls(p.calls, outcome))
    ELSE postCreatePaymentIntent(p.req, outcome,
                                 SettledCalls(p.calls, outcome))

\* The processor call settles, the handler answers, and the request's copy
\* of the session, with what req.flash added to it, is written to the store.
SessionEnd(p, outcome) ==
    /\ outcome \in IF p.route = "POST /api/create-payment-intent"
                   THEN sdkCreate(p.calls[1].args)
                   ELSE sdkRetrieve(p.req.id)
    /\ resp' = handlerAfterAwait(p, outcome)
    /\ flash' = [flash EXCEPT ![p.req.session] = p.sess \o resp'.flashed]
    /\ pending' = pending \ {p}
    /\ UNCHANGED <<fnVars, auxVars, gw, env, intents>>

NextSession ==
    \/ \E s \in Sessions : GetCheckoutsNew(s)
    \/ \E s \in Sessions : PostCheckoutsStart(s, Undefined)
    \/ \E s \in Sessions, id \in JsIds :
           SessionStart("GET /checkouts/:id", Req(s, id, 0, Undefined),
                        RetrieveCall(id))
    \/ \E s \in Sessions :
           SessionStart("POST /checkouts", Req(s, Str("pi_1"), 0, Undefined),
                        RetrieveCall(Str("pi_1")))
    \/ \E s \in Sessions, a \in LiveAmounts :
           SessionStart("POST /api/create-payment-intent",
                        Req(s, Undefined, a, Undefined), CreateCall(a))
    \/ \E p \in pending :
           \E o \in sdkCreate(<<>>) \cup UNION {sdkRetrieve(i) : i \in JsIds} :
               SessionEnd(p, o)

SpecSession == InitLive /\ [][NextSession]_vars

(***************************************************************************)
(* Properties of the status mapping and of the classifier (SpecFn)         *)
(***************************************************************************)
\* The mapping table of the specification, with unmapped strings unchanged.
LegacyStatusOf(s) ==
    CASE s \in {"requires_payment_method", "requires_confirmation",
                "requires_action"} -> "Authorizing"
      [] s = "processing" -> "SubmittedForSettlement"
      [] s = "requires_capture" -> "Authorized"
      [] s = "canceled" -> "Voided"
      [] s = "succeeded" -> "Settled"
      [] OTHER -> s

\* C1: mapStripeStatusToBraintree returns the documented legacy string for
\* each of the seven processor statuses and, for every other string, that
\* same string unchanged.
C1_MappingIsTableOrIdentity ==
    fnMapped # NotCalled => fnMapped = Str(LegacyStatusOf(fnArg.v))

SuccessHeader == "Sweet Success!"

FailureHeader == "Transaction Failed"

FailureMessage(status) ==
    "Your test transaction has a status of " \o status
        \o ". See the Stripe API response and try again."

\* C2: createResultObject selects the success triple exactly for the six
\* statuses succeeded, processing, requires_capture, Settled, Authorized,
\* SubmittedForSettlement, and the failure triple, with the status in its
\* message, for every other string.
C2_ClassifierSuccessSet ==
    fnResult # NoResult =>
        IF fnArg.v \in {"succeeded", "processing", "requires_capture",
                        "Settled", "Authorized", "SubmittedForSettlement"}
        THEN fnResult.header = SuccessHeader /\ fnResult.icon = "success"
        ELSE /\ fnResult.header = FailureHeader
             /\ fnResult.icon = "fail"
             /\ fnResult.message = FailureMessage(fnArg.v)

\* The classifier has accepted a status of the legacy vocabulary.
C2_Witness ==
    /\ fnArg = Str("SubmittedForSettlement")
    /\ fnResult.header = SuccessHeader

(***************************************************************************)
(* Properties of POST /stripe/webhooks (SpecWebhook)                       *)
(***************************************************************************)
IsWebhook == resp.route = "POST /stripe/webhooks"

\* The request reached the verification and the SDK accepted the signature.
Verified == IsWebhook /\ resp.calls # <<>> /\ ~resp.calls[1].outcome.threw

\* The request reached the verification and the SDK rejected it.
VerificationFailed ==
    IsWebhook /\ resp.calls # <<>> /\ resp.calls[1].outcome.threw

\* The debug lines the dispatch switch can write.
IsDispatchLine(line) ==
    \/ \E e \in Events : e.hasData /\ e.type \in KnownEventTypes
                         /\ line = dispatchFormat[e.type] \o e.id
    \/ \E t \in EventTypes : line = "Unhandled event type: " \o t
    \/ Includes(line, "Error handling webhook event")

\* Handling the verified event raises: a known case reads event.data.object
\* of an event without data.
HandlingRaises ==
    /\ resp.req.body.event.type \in KnownEventTypes
    /\ ~resp.req.body.event.hasData

\* C3: once the signature is verified, an event of any type is acknowledged
\* with 200 {received: true}; an exception raised while handling it is
\* caught and answered with 500, and never leaves the handler.
C3_VerifiedEventAcknowledged ==
    Verified =>
        /\ ~resp.escaped
        /\ ~HandlingRaises =>
               resp.status = 200 /\ resp.json = [received |-> TRUE]
        /\ HandlingRaises =>
               resp.status = 500 /\ resp.text = "Webhook handler error"

\* An unrecognised event type was acknowledged.
C3_Witness ==
    /\ Verified
    /\ resp.req.body.event.type = "invoice.paid"
    /\ resp.status = 200

\* C4: the dispatch (and its log line) happens only after the verification
\* of the same request succeeded; a failed verification is answered with
\* 400 and the fixed text, runs no event handler, lets no error escape and
\* is attempted exactly once.
C4_VerifyThenDispatch ==
    /\ (IsWebhook /\ \E i \in 1..Len(resp.log) : IsDispatchLine(resp.log[i]))
           => Verified
    /\ IsWebhook => Len(resp.calls) <= 1
    /\ VerificationFailed =>
           /\ resp.status = 400
           /\ resp.text = "Webhook signature verification failed"
           /\ ~resp.escaped
           /\ Len(resp.calls) = 1
           /\ \A i \in 1..Len(resp.log) : ~IsDispatchLine(resp.log[i])

\* A request with a wrong signature over a well-formed known event was
\* refused.
C4_Witness ==
    /\ VerificationFailed
    /\ resp.req.sig = Str("t=1234567890,v1=bad")
    /\ resp.req.body.parses
    /\ resp.req.body.event.type = "payment_intent.succeeded"
    /\ resp.status = 400

\* The stripe-signature header is present and has no 't=' in it.
LacksTimestamp ==
    IsWebhook /\ resp.req.sig.t = "string" /\ ~Includes(resp.req.sig.v, "t=")

\* C5 as stated: a signature header without 't=' always yields 400.
C5_NoTimestampAlways400 == LacksTimestamp => resp.status = 400

\* C5 as amended: a signature header without 't=' yields 400 when the
\* webhook secret is configured, and 500 'Webhook secret not configured'
\* when it is not.
C5_NoTimestamp400WhenConfigured ==
    LacksTimestamp =>
        IF Truthy(env.STRIPE_WEBHOOK_SECRET)
        THEN resp.status = 400
        ELSE /\ resp.status = 500
             /\ resp.text = "Webhook secret not configured"

\* A header without timestamp was refused under a configured secret.
C5_Witness ==
    /\ LacksTimestamp
    /\ Truthy(env.STRIPE_WEBHOOK_SECRET)
    /\ resp.req.sig = Str("v1=sig_whsec_test")
    /\ resp.status = 400

\* C6: with no webhook secret configured when the request is handled, the
\* answer is 500 'Webhook secret not configured' whatever the header and
\* body are, and neither verification nor dispatch is attempted.
C6_MissingSecret500 ==
    (IsWebhook /\ ~Truthy(env.STRIPE_WEBHOOK_SECRET)) =>
        /\ resp.status = 500
        /\ resp.text = "Webhook secret not configured"
        /\ resp.calls = <<>>
        /\ \A i \in 1..Len(resp.log) : ~IsDispatchLine(resp.log[i])

\* A correctly signed event arrived while the secret was the empty string.
C6_Witness ==
    /\ IsWebhook
    /\ env.STRIPE_WEBHOOK_SECRET = Str("")
    /\ resp.req.sig = Str("t=1234567890,v1=sig_whsec_test")
    /\ resp.req.body.parses
    /\ resp.status = 500

(***************************************************************************)
(* Properties of the checkout routes (Spec)                                *)
(***************************************************************************)
IsPostCheckouts == resp.route = "POST /checkouts"

IsGetCheckoutsId == resp.route = "GET /checkouts/:id"

\* The request's one processor call resolved with a payment intent.
RetrievalSucceeded ==
    /\ resp.calls # <<>>
    /\ ~resp.calls[1].outcome.rejected
    /\ resp.calls[1].outcome.value.defined

\* The request's one processor call was rejected.
RetrievalFailed == resp.calls # <<>> /\ resp.calls[1].outcome.rejected

\* The processor status the request retrieved.
RawStatus == resp.calls[1].outcome.value.status.v

\* The messages the response queued are the newest ones of its session.
QueuedInSession ==
    \/ resp.flashed = <<>>
    \/ /\ Len(flash[resp.req.session]) >= Len(resp.flashed)
       /\ SubSeq(flash[resp.req.session],
                 Len(flash[resp.req.session]) - Len(resp.flashed) + 1,
                 Len(flash[resp.req.session])) = resp.flashed

\* C7: POST /checkouts whose retrieval succeeds branches on the raw status:
\* succeeded redirects to /checkouts/<id> without a flash; requires_action
\* and requires_confirmation redirect to checkouts/new with 'Payment
\* requires additional verification'; every other status redirects to
\* checkouts/new with 'Payment failed with status: <status>'.
C7_PostCheckoutsBranches ==
    (IsPostCheckouts /\ RetrievalSucceeded) =>
        /\ resp.status = 302
        /\ RawStatus = intents[resp.req.id.v].v
        /\ QueuedInSession
        /\ CASE RawStatus = "succeeded" ->
                    /\ resp.location = "/checkouts/" \o resp.req.id.v
                    /\ resp.flashed = <<>>
             [] RawStatus \in {"requires_action", "requires_confirmation"} ->
                    /\ resp.location = "checkouts/new"
                    /\ resp.flashed =
                           <<"Payment requires additional verification">>
             [] OTHER ->
                    /\ resp.location = "checkouts/new"
                    /\ resp.flashed =
                           <<"Payment failed with status: " \o RawStatus>>

\* A payment still processing was sent back to the form.
C7_Witness ==
    /\ IsPostCheckouts
    /\ RetrievalSucceeded
    /\ RawStatus = "processing"
    /\ resp.location = "checkouts/new"

MissingIdMessage == "Payment intent ID is required"

InQueue(s, m) == \E i \in 1..Len(flash[s]) : flash[s][i] = m

InQueueNext(s, m) == \E i \in 1..Len(flash'[s]) : flash'[s][i] = m

C9_RetrievalFailureRedirects ==
    (IsPostCheckouts /\ RetrievalFailed) =>
        /\ resp.status = 302
        /\ resp.location = "checkouts/new"
        /\ resp.flashed = <<"Payment processing failed">>
        /\ QueuedInSession
        /\ ~resp.escaped

\* The retrieval of the known intent failed on the connection.
C9_Witness ==
    /\ IsPostCheckouts
    /\ RetrievalFailed
    /\ resp.req.id = Str("pi_1")
    /\ resp.calls[1].outcome.message = ConnectionError
    /\ resp.status = 302

\* C10: GET /checkouts/<id> whose retrieval succeeds renders the show page
\* (200) with 'Sweet Success!' exactly when the raw status is succeeded,
\* processing or requires_capture, and otherwise with 'Transaction Failed'
\* and a message interpolating the mapped legacy status.
C10_ShowPageBanner ==
    (IsGetCheckoutsId /\ RetrievalSucceeded) =>
        /\ resp.status = 200
        /\ resp.view = "checkouts/show"
        /\ RawStatus = intents[resp.req.id.v].v
        /\ IF RawStatus \in {"succeeded", "processing", "requires_capture"}
           THEN resp.locals.result.header = SuccessHeader
           ELSE /\ resp.locals.result.header = FailureHeader
                /\ resp.locals.result.message =
                       FailureMessage(LegacyStatusOf(RawStatus))

\* A canceled intent was shown as failed with the status Voided.
C10_Witness ==
    /\ IsGetCheckoutsId
    /\ RetrievalSucceeded
    /\ RawStatus = "canceled"
    /\ resp.locals.result.message = FailureMessage("Voided")

IsRejected == resp.calls # <<>> /\ resp.calls[1].outcome.rejected

\* C11: GET /checkouts/<id> whose retrieval fails never renders the show
\* page and never answers 5xx: it queues 'Transaction not found' and
\* redirects (302) to /checkouts/new.
C11_FindFailureRedirects ==
    (IsGetCheckoutsId /\ ~RetrievalSucceeded) =>
        /\ resp.status = 302
        /\ resp.location = "/checkouts/new"
        /\ resp.view = ""
        /\ resp.flashed = <<"Transaction not found">>
        /\ QueuedInSession
        /\ ~resp.escaped

\* The retrieval of an intent the processor does not know was rejected.
C11_Witness ==
    /\ IsGetCheckoutsId
    /\ IsRejected
    /\ resp.req.id = Str("pi_unknown")
    /\ resp.calls[1].outcome.message = NoSuchIntent
    /\ resp.location = "/checkouts/new"

IsGetComplete == resp.route = "GET /checkouts/complete"

\* C12: GET /checkouts/complete redirects to /checkouts/<payment_intent>
\* if and only if redirect_status is exactly 'succeeded' and payment_intent
\* is present and non-empty; otherwise it queues 'Payment was not
\* completed' and redirects to /checkouts/new. It never calls the processor.
C12_CompleteRedirect ==
    IsGetComplete =>
        /\ resp.status = 302
        /\ resp.calls = <<>>
        /\ QueuedInSession
        /\ IF /\ resp.req.redirect_status.t = "string"
              /\ resp.req.redirect_status.v = "succeeded"
              /\ resp.req.id.t = "string"
              /\ resp.req.id.v # ""
           THEN /\ resp.location = "/checkouts/" \o resp.req.id.v
                /\ resp.flashed = <<>>
           ELSE /\ resp.location = "/checkouts/new"
                /\ resp.flashed = <<"Payment was not completed">>

\* A return from the processor's page with a failed redirect_status.
C12_Witness ==
    /\ IsGetComplete
    /\ resp.req.id = Str("pi_1")
    /\ resp.req.redirect_status = Str("failed")
    /\ resp.location = "/checkouts/new"

IsCreateIntent == resp.route = "POST /api/create-payment-intent"

\* C13: POST /api/create-payment-intent has exactly two outcomes: 200 with
\* {clientSecret, paymentIntentId} of the created intent when the processor
\* creates it, and 400 with the fixed error body when creation fails.
C13_CreateIntentTwoOutcomes ==
    IsCreateIntent =>
        /\ resp.calls # <<>>
        /\ IF RetrievalSucceeded
           THEN /\ resp.status = 200
                /\ resp.json =
                       [clientSecret |->
                            resp.calls[1].outcome.value.client_secret,
                        paymentIntentId |-> resp.calls[1].outcome.value.id]
           ELSE /\ resp.status = 400
                /\ resp.json =
                       [error |->
                            "Payment intent creation failed. Please try again."]

\* The processor refused the amount.
C13_Witness ==
    /\ IsCreateIntent
    /\ IsRejected
    /\ resp.calls[1].outcome.message = "Invalid integer"
    /\ resp.status = 400

\* The create call made for an amount given in thousandths.
IsCreateCallFor(call, amount) ==
    /\ call.op = "paymentIntents.create"
    /\ call.args.currency = "usd"
    /\ call.args.automatic_payment_methods = [enabled |-> TRUE]
    /\ 10 * call.args.amount - amount \in -5..5
    /\ amount = 50000 => call.args.amount = 5000
    /\ amount = 10000 => call.args.amount = 1000

\* C14: for every amount a of POST /api/create-payment-intent the
\* processor's create call carries an integer nearest to a times 100
\* (50.00 gives 5000, 10 gives 1000), the currency 'usd' and automatic
\* payment methods enabled.
C14_AmountInMinorUnits ==
    /\ \A p \in pending :
           p.route = "POST /api/create-payment-intent" =>
               Len(p.calls) = 1 /\ IsCreateCallFor(p.calls[1], p.req.amount)
    /\ IsCreateIntent =>
           Len(resp.calls) = 1 /\ IsCreateCallFor(resp.calls[1], resp.req.amount)

\* 10.999 was sent to the processor as 1100 cents.
C14_Witness ==
    /\ IsCreateIntent
    /\ resp.req.amount = 10999
    /\ resp.calls[1].args.amount = 1100


(***************************************************************************)
(* Properties of the gateway's methods and of the shim (SpecGateway)       *)
(***************************************************************************)
IsDecimalDigit(ch) == \E d \in 1..10 : SubSeq("0123456789", d, d) = ch

DecimalDigitValue(ch) ==
    CHOOSE d \in 0..9 : SubSeq("0123456789", d + 1, d + 1) = ch

RECURSIVE ParseNat(_)
ParseNat(s) ==
    IF Len(s) = 0 THEN 0
    ELSE 10 * ParseNat(SubSeq(s, 1, Len(s) - 1))
             + DecimalDigitValue(SubSeq(s, Len(s), Len(s)))

\* s is the decimal numeral of cents / 100 with exactly two fractional
\* digits and no superfluous leading zero.
IsTwoDecimalsOf(s, cents) ==
    LET n == Len(s)
        whole == SubSeq(s, 1, n - 3)
        frac == SubSeq(s, n - 1, n)
    IN  /\ n >= 4
        /\ SubSeq(s, n - 2, n - 2) = "."
        /\ \A k \in (1..n) \ {n - 2} : IsDecimalDigit(SubSeq(s, k, k))
        /\ Len(whole) = 1 \/ SubSeq(whole, 1, 1) # "0"
        /\ 100 * ParseNat(whole) + ParseNat(frac) = cents

\* The direct call got an intent back from the processor.
GotIntent ==
    /\ gw.calls # <<>>
    /\ ~gw.calls[1].outcome.rejected
    /\ gw.calls[1].outcome.value.defined

ReportedAmount ==
    IF gw.method = "transaction.sale" THEN gw.value.transaction.amount
    ELSE gw.value.amount

\* C15: transaction.find and transaction.sale report the amount as the
\* processor's minor-unit integer divided by 100, as a decimal string with
\* exactly two fractional digits (10000 gives '100.00', 7500 gives '75.00',
\* 1000 gives '10.00'); the show page displays that string.
C15_AmountTwoDecimals ==
    (gw.method \in {"transaction.find", "transaction.sale",
                    "GET /checkouts/:id"} /\ GotIntent) =>
        LET cents == gw.calls[1].outcome.value.amount
        IN  /\ IsTwoDecimalsOf(ReportedAmount, cents)
            /\ cents = 10000 => ReportedAmount = "100.00"
            /\ cents = 7500 => ReportedAmount = "75.00"
            /\ cents = 1000 => ReportedAmount = "10.00"
            /\ gw.method = "GET /checkouts/:id" =>
                   /\ gw.page.view = "checkouts/show"
                   /\ gw.page.locals.transaction.amount = ReportedAmount

\* The show page displays an amount below one major unit.
C15_Witness ==
    /\ gw.method = "GET /checkouts/:id"
    /\ GotIntent
    /\ gw.calls[1].outcome.value.amount = 5
    /\ gw.page.locals.transaction.amount = "0.05"

\* C16: for every status string s, the classifier gives the same
\* success/failure answer for s and for the mapped legacy status of s.
C16_ClassifierCommutesWithMapping ==
    (fnResult # NoResult /\ fnResultMapped # NoResult) =>
        /\ fnResult.header = fnResultMapped.header
        /\ fnResult.icon = fnResultMapped.icon
        /\ fnResult.header \in {SuccessHeader, FailureHeader}

\* A native status and its legacy form are both classified as success.
C16_Witness ==
    /\ fnArg = Str("succeeded")
    /\ fnMapped = Str("Settled")
    /\ fnResult.header = SuccessHeader
    /\ fnResultMapped.header = SuccessHeader

\* The prefix each adapter method puts before the processor's message.
MethodPrefix ==
    [m \in AdapterMethods \cup {"constructWebhookEvent"} |->
        CASE m = "createPaymentIntent" -> "Payment intent creation failed"
          [] m = "retrievePaymentIntent" -> "Payment intent retrieval failed"
          [] m = "confirmPaymentIntent" -> "Payment confirmation failed"
          [] m = "createCheckoutSession" -> "Checkout session creation failed"
          [] m = "retrieveSession" -> "Session retrieval failed"
          [] m = "constructWebhookEvent" ->
                 "Webhook signature verification failed"
          [] m = "createCustomer" -> "Customer creation failed"
          [] m = "retrieveCustomer" -> "Customer retrieval failed"
          [] m = "updateCustomer" -> "Customer update failed"
          [] m = "attachPaymentMethod" -> "Payment method attachment failed"
          [] m = "listPaymentMethods" -> "Payment method listing failed"
          [] m = "detachPaymentMethod" -> "Payment method detachment failed"
          [] m = "setDefaultPaymentMethod" ->
                 "Setting default payment method failed"
          [] m = "createPaymentIntentWithCustomer" ->
                 "Payment intent with customer creation failed"
          [] m = "createRefund" -> "Refund creation failed"
          [] m = "retrieveRefund" -> "Refund retrieval failed"
          [] m = "listRefunds" -> "Refund listing failed"
          [] m = "updateRefund" -> "Refund update failed"]

\* C17: every adapter method returns the processor's result (for list
\* methods, its data array) when the processor call succeeds, and when the
\* call fails with message m it throws an error whose message is the
\* method's fixed prefix, ': ' and m; no method swallows a failure.
C17_AdapterWrapsFailures ==
    gw.method \in DOMAIN MethodPrefix =>
        LET outcome == gw.calls[1].outcome
        IN  IF outcome.rejected
            THEN /\ gw.threw
                 /\ gw.message =
                        MethodPrefix[gw.method] \o ": " \o outcome.message
            ELSE /\ ~gw.threw
                 /\ gw.value = IF gw.method \in ListMethods
                               THEN outcome.value.data
                               ELSE outcome.value

\* A list method has failed with the processor's message behind its prefix.
C17_Witness ==
    /\ gw.method = "listRefunds"
    /\ gw.threw
    /\ gw.message = "Refund listing failed: " \o ConnectionError

\* C18: transaction.sale never throws: when creation succeeds it returns
\* {success: true, transaction} with the created intent's id, currency and
\* raw status; when creation fails it returns {success: false, errors} with
\* exactly one entry, of code 'PAYMENT_FAILED' and the adapter's wrapped
\* message.
C18_SaleNeverThrows ==
    gw.method = "transaction.sale" =>
        LET outcome == gw.calls[1].outcome
        IN  /\ ~gw.threw
            /\ GotIntent =>
                   /\ gw.value.success
                   /\ gw.value.transaction.id = outcome.value.id
                   /\ gw.value.transaction.currency = outcome.value.currency
                   /\ gw.value.transaction.status = outcome.value.status
            /\ outcome.rejected =>
                   /\ ~gw.value.success
                   /\ gw.value.errors =
                          <<[code |-> "PAYMENT_FAILED",
                             message |->
                                 "Payment intent creation failed: "
                                     \o outcome.message]>>

\* A sale whose creation failed has answered with the error container.
C18_Witness ==
    /\ gw.method = "transaction.sale"
    /\ gw.calls[1].outcome.rejected
    /\ ~gw.threw
    /\ ~gw.value.success
    /\ Len(gw.value.errors) = 1

(***************************************************************************)
(* What a failed processor call shows to the user (SpecGateway)            *)
(***************************************************************************)
\* What the end user receives of a response, and what a later page shows.
Visible(r) ==
    [status |-> r.status, location |-> r.location, text |-> r.text,
     json |-> r.json, view |-> r.view, locals |-> r.locals,
     flashed |-> r.flashed]

\* The fixed answer of each route to a failed processor call.
GenericFailure ==
    [route \in {"POST /api/create-payment-intent", "POST /checkouts",
                "GET /checkouts/:id", "POST /stripe/webhooks"} |->
        CASE route = "POST /api/create-payment-intent" ->
                 Visible([NoResp EXCEPT
                     !.status = 400,
                     !.json = [error |-> "Payment intent creation failed. Please try again."]])
          [] route = "POST /checkouts" ->
                 Visible([NoResp EXCEPT
                     !.status = 302, !.location = "checkouts/new",
                     !.flashed = <<"Payment processing failed">>])
          [] route = "GET /checkouts/:id" ->
                 Visible([NoResp EXCEPT
                     !.status = 302, !.location = "/checkouts/new",
                     !.flashed = <<"Transaction not found">>])
          [] route = "POST /stripe/webhooks" ->
                 Visible([NoResp EXCEPT
                     !.status = 400,
                     !.text = "Webhook signature verification failed"])]

\* The processor call of the request run against the mocked SDK has failed.
MockedCallFailed ==
    /\ gw.method \in DOMAIN GenericFailure
    /\ gw.page.calls # <<>>
    /\ IF gw.method = "POST /stripe/webhooks"
       THEN gw.page.calls[1].outcome.threw
       ELSE gw.page.calls[1].outcome.rejected

\* C19: after a failed processor call the status, body, redirect location
\* and flash message of the four routes are the same for every error
\* message of the processor (fixed generic text); the error's detail goes to
\* the server-side log.
C19_FailureDetailNotShown ==
    MockedCallFailed =>
        /\ Visible(gw.page) = GenericFailure[gw.method]
        /\ ~gw.page.escaped
        /\ \E k \in 1..Len(gw.page.log) :
               Includes(gw.page.log[k], gw.page.calls[1].outcome.message)

\* POST /checkouts has answered a declined card with its generic flash.
C19_Witness ==
    /\ gw.method = "POST /checkouts"
    /\ MockedCallFailed
    /\ gw.page.calls[1].outcome.message = "Your card was declined."
    /\ gw.page.flashed = <<"Payment processing failed">>

(***************************************************************************)
(* Processor calls per request (Spec)                                      *)
(***************************************************************************)
\* C20: nothing is retried: each request causes at most one call to the
\* processor (GET /, GET /checkouts/new, GET /checkouts/complete and
\* POST /checkouts with a missing ID cause none), no handler spans more than
\* one processor call, a failed call is not issued again within its request,
\* and a further call is issued only by a further request.
C20_NothingRetried ==
    [][/\ Len(resp'.calls) <= 1
       /\ resp'.route \in {"GET /", "GET /checkouts/new",
                           "GET /checkouts/complete"} => resp'.calls = <<>>
       /\ (resp'.route = "POST /checkouts" /\ ~Truthy(resp'.req.id)) =>
              resp'.calls = <<>>
       /\ \A p \in pending' : Len(p.calls) = 1
       /\ resp'.calls # <<>> =>
              \E p \in pending :
                  /\ p.route = resp'.route
                  /\ p.req = resp'.req
                  /\ pending' = pending \ {p}
       /\ ~(pending' \subseteq pending) =>
              /\ resp' = NoResp
              /\ pending \subseteq pending'
              /\ Cardinality(pending' \ pending) = 1]_vars

\* A rejected retrieval has been answered and no call is outstanding.
C20_Witness ==
    /\ IsPostCheckouts
    /\ IsRejected
    /\ Len(resp.calls) = 1
    /\ pending = {}

IsCheckoutsNew == resp.route = "GET /checkouts/new"

SecretNotConfigured ==
    /\ resp.status = 500
    /\ resp.text = "Webhook secret not configured"

\* C22 as claimed: the webhook secret used to verify any request and the
\* publishable key exposed by GET /checkouts/new are the values the
\* environment held when the process started.
C22_ConfigFixedAtStart ==
    /\ IsWebhook =>
           /\ SecretNotConfigured <=>
                  ~Truthy(proc.startEnv.STRIPE_WEBHOOK_SECRET)
           /\ resp.calls # <<>> =>
                  resp.calls[1].args.secret =
                      proc.startEnv.STRIPE_WEBHOOK_SECRET
    /\ IsCheckoutsNew =>
           resp.locals.clientToken = proc.startEnv.STRIPE_PUBLISHABLE_KEY

\* C22 as amended: the secret API key is fixed at process start, in the SDK
\* client built at load; the webhook secret used to verify a request and
\* the publishable key exposed by GET /checkouts/new are the values the
\* environment holds when that request is handled.
C22_ConfigReadPerRequest ==
    /\ proc.phase = "serving" =>
           proc.stripeKey = proc.startEnv.STRIPE_SECRET_KEY
    /\ IsWebhook =>
           /\ SecretNotConfigured <=> ~Truthy(env.STRIPE_WEBHOOK_SECRET)
           /\ resp.calls # <<>> =>
                  resp.calls[1].args.secret = env.STRIPE_WEBHOOK_SECRET
    /\ IsCheckoutsNew =>
           resp.locals.clientToken = env.STRIPE_PUBLISHABLE_KEY

\* A request was verified with a secret set after the start, and the secret
\* API key of the environment is no longer the one the SDK client holds.
C22_Witness ==
    /\ IsWebhook
    /\ resp.calls # <<>>
    /\ resp.calls[1].args.secret = Str("whsec_other")
    /\ proc.startEnv.STRIPE_WEBHOOK_SECRET = Str("whsec_test")
    /\ env.STRIPE_SECRET_KEY # proc.stripeKey

\* C23: loading the gateway module fails, before any route serves a
\* request, exactly when the secret API key or the publishable API key is
\* absent or empty at startup; the webhook signing secret is not checked at
\* load.
C23_LoadFailsWithoutApiKeys ==
    LET absent(v) == v = Undefined \/ v = Str("")
    IN  /\ proc.phase = "failed" <=>
               /\ proc.phase # "starting"
               /\ \/ absent(proc.startEnv.STRIPE_SECRET_KEY)
                  \/ absent(proc.startEnv.STRIPE_PUBLISHABLE_KEY)
        /\ proc.phase # "serving" => resp = NoResp
        /\ proc.phase = "failed" => proc.stripeKey = Undefined

\* The load has failed for an empty publishable key.
C23_Witness ==
    /\ proc.phase = "failed"
    /\ proc.startEnv.STRIPE_SECRET_KEY = Str("sk_test_mock_key")
    /\ proc.startEnv.STRIPE_PUBLISHABLE_KEY = Str("")

(***************************************************************************)
(* The refund request (SpecGateway)                                        *)
(***************************************************************************)
IsRefundRequest ==
    /\ gw.method = "createRefund"
    /\ gw.calls[1].op = "refunds.create"

\* C24: createRefund sends a refund request whose amount field is present
\* exactly when an amount was supplied: with none it carries only
\* payment_intent and reason, the reason defaulting to
\* 'requested_by_customer'; with an amount a it carries a times 100,
\* rounded (25 gives 2500), and the given reason.
C24_RefundAmountOnlyWhenSupplied ==
    IsRefundRequest =>
        LET given == gw.calls[1].given
            data == gw.calls[1].args
            supplied == given.amount # Undefined /\ given.amount # Null
        IN  /\ data.payment_intent = given.paymentIntentId
            /\ data.reason = IF given.reason = Undefined
                             THEN Str("requested_by_customer")
                             ELSE given.reason
            /\ DOMAIN data = IF supplied
                             THEN {"payment_intent", "reason", "amount"}
                             ELSE {"payment_intent", "reason"}
            /\ supplied =>
                   /\ 10 * data.amount - given.amount.n \in -5..5
                   /\ given.amount.n = 25000 => data.amount = 2500

\* A refund of amount 0 was asked for and the request carries amount 0.
C24_Witness ==
    /\ IsRefundRequest
    /\ gw.calls[1].given.amount = Num(0)
    /\ gw.calls[1].given.reason = Undefined
    /\ gw.calls[1].args.amount = 0

(***************************************************************************)
(* Properties of the checkout page's script (SpecBrowser)                  *)
(***************************************************************************)
\* C26: once a submission has disabled the button, every outcome of the
\* creation and of the confirmation, when it has been handled, has either
\* navigated to /checkouts/<id> or given the button back, enabled and
\* reading 'Test Transaction'; whatever the confirmation result was.
C26_EveryOutcomeFreesTheButton ==
    (browser.open /\ browser.handled # NoOutcome) =>
        \/ browser.location = "/checkouts/pi_" \o NatToString(browser.handled.n)
        \/ /\ browser.location = "/checkouts/new"
           /\ ~browser.disabled
           /\ browser.textContent = "Test Transaction"

\* C29: while a submission is in flight the button is disabled and reads
\* 'Processing...', so at most one submission is in flight on the page;
\* every submission has sent its own creation request; and the client
\* secret handed to the confirmation is the one the creation request of
\* that submission returned.
C29_OneSubmissionInFlight ==
    browser.open =>
        /\ Cardinality(browser.flights) <= 1
        /\ browser.flights # {} =>
               browser.disabled /\ browser.textContent = "Processing..."
        /\ browser.fetches = browser.submits
        /\ \A f \in browser.flights :
               /\ f.n = browser.submits
               /\ f.pc = "confirming" =>
                      /\ f.confirmedWith = f.secret
                      /\ f.confirmedWith \in
                             {o.data.clientSecret :
                                 o \in {x \in FetchOutcomes(f.n) : x.kind = "ok"}}

\* The second submission of the page is being confirmed with the secret of
\* its own intent, the first having ended in an error that gave the button
\* back.
C29_Witness ==
    /\ browser.open
    /\ browser.submits = 2
    /\ \E f \in browser.flights :
           /\ f.n = 2
           /\ f.pc = "confirming"
           /\ f.confirmedWith = Str("pi_2_secret")
           /\ browser.clientSecret = Str("pi_2_secret")

(***************************************************************************)
(* Every request is answered once (SpecLive)                               *)
(***************************************************************************)
AsyncRoutes ==
    {"GET /checkouts/:id", "POST /api/create-payment-intent", "POST /checkouts"}

\* resp is a response to the suspended request p.
AnswerTo(p, r) ==
    /\ r.route = p.route
    /\ r.req = p.req
    /\ r.status # 0
    /\ ~r.escaped

\* C25: a handler that took a request answers it: no exception leaves it;
\* a suspended request leaves the suspended set only by its one response,
\* and a response of an awaiting route goes to a request that was suspended
\* and is not any more (or to a POST /checkouts answered before its await);
\* and, each processor call settling, every suspended request is
\* eventually answered.
C25_EveryRequestAnsweredOnce ==
    /\ [][/\ ~resp'.escaped
          /\ resp'.route # "" => resp'.status # 0
          /\ pending' \subseteq pending =>
                 /\ Cardinality(pending \ pending') <= 1
                 /\ \A p \in pending \ pending' : AnswerTo(p, resp')
          /\ (resp'.route \in AsyncRoutes) =>
                 \/ \E p \in pending \ pending' : AnswerTo(p, resp')
                 \/ /\ resp'.route = "POST /checkouts"
                    /\ ~Truthy(resp'.req.id)
                    /\ pending' = pending]_vars
    /\ \A p \in LivePending : (p \in pending) ~> (p \notin pending)

\* A retrieval for GET /checkouts/<id> resolved with no object and the
\* request was answered with the redirect to the form.
C25_Witness ==
    /\ resp.route = "GET /checkouts/:id"
    /\ resp.status = 302
    /\ Len(resp.calls) = 1
    /\ ~resp.calls[1].outcome.rejected
    /\ ~resp.calls[1].outcome.value.defined
    /\ pending = {}

(***************************************************************************)
(* The banner of the show page (SpecFollow)                                *)
(***************************************************************************)
\* C27: the banner GET /checkouts/<id> renders is decided by the status the
\* processor returned for <id> alone: 'Sweet Success!' for succeeded,
\* processing and requires_capture, 'Transaction Failed' for every other
\* status, whatever redirect_status the request that was sent to
\* /checkouts/complete, or the followed URL itself, carried.
C27_BannerFromProcessorStatus ==
    (IsGetCheckoutsId /\ RetrievalSucceeded) =>
        /\ resp.view = "checkouts/show"
        /\ resp.locals.result.header =
               IF RawStatus \in {"succeeded", "processing", "requires_capture"}
               THEN "Sweet Success!"
               ELSE "Transaction Failed"

\* The redirect of a return with redirect_status=succeeded was followed
\* with that parameter still on the URL, for an intent the processor holds
\* as not paid, and the show page reads 'Transaction Failed'.
C27_Witness ==
    /\ IsGetCheckoutsId
    /\ RetrievalSucceeded
    /\ resp.req.id = Str("pi_1")
    /\ resp.req.redirect_status = Str("succeeded")
    /\ RawStatus = "requires_payment_method"
    /\ resp.locals.result.header = "Transaction Failed"

(***************************************************************************)
(* POST /checkouts and GET /checkouts/<id> agree (Spec)                    *)
(***************************************************************************)
\* C28: once POST /checkouts has redirected to /checkouts/<id>, every
\* GET /checkouts/<id> whose retrieval succeeds renders the success banner,
\* however the processor's status changes were interleaved with the two
\* requests.
C28_AcceptedPaymentShowsSuccess ==
    (IsGetCheckoutsId /\ RetrievalSucceeded /\ resp.req.id \in accepted) =>
        /\ resp.view = "checkouts/show"
        /\ resp.locals.result.header = "Sweet Success!"
        /\ resp.locals.result.icon = "success"

\* POST /checkouts accepted pi_1 and a later GET /checkouts/pi_1 rendered
\* the show page.
C28_Witness ==
    /\ IsGetCheckoutsId
    /\ RetrievalSucceeded
    /\ resp.req.id = Str("pi_1")
    /\ accepted = {Str("pi_1")}
    /\ resp.locals.transaction.status = Str("Settled")

(***************************************************************************)
(* Flash errors (SpecSession)                                              *)
(***************************************************************************)
\* C30: the queue of flash errors of a session changes in two ways only: a
\* failed request of that session appends its error to it, and GET
\* /checkouts/new of that session renders the whole queue and empties it.
\* So a queued error is rendered by the session's next GET /checkouts/new,
\* is gone after that read, is never rendered to another session, and a
\* request that takes no error path leaves the queue as it was.
C30_FlashQueuedReadOnce ==
    [][/\ resp'.route = "GET /checkouts/new" =>
              /\ resp'.locals.messages = flash[resp'.req.session]
              /\ flash'[resp'.req.session] = <<>>
       /\ \A s \in Sessions :
              \/ flash'[s] = flash[s]
              \/ /\ resp'.route = "GET /checkouts/new"
                 /\ resp'.req.session = s
              \/ /\ resp'.route # ""
                 /\ resp'.req.session = s
                 /\ resp'.flashed # <<>>
                 /\ flash'[s] = flash[s] \o resp'.flashed]_vars

====
